---- MODULE Spec2Model ----
(***************************************************************************)
(* Data-quality engine of the reservoir/weather repository: the Cleaner    *)
(* (src/src/data_processing/cleaner.py) as a state machine over a tabular  *)
(* dataset.  A dataset (pandas DataFrame) is a record                      *)
(*   index  : "range" (labels 0,1,2.. as the loader builds them) or "time" *)
(*            (a DatetimeIndex holding each row's date)                    *)
(*   cols   : the set of column names                                      *)
(*   dtypes : column -> "float" | "object" | "datetime"                    *)
(*   rows   : sequence of [label, cells], cells : column -> cell           *)
(* A cell is [k, v]: k = "num" (a number, v in units of 0.0001), "nan"     *)
(* (missing), "txt" (text that parses as the number v), "str" (text that   *)
(* is no number, v names the string) or "date" (v = days, 1 = 2020-01-01). *)
(* The Validator (src/src/data_processing/validator.py) reads the dataset   *)
(* and returns a report; `passed` is the caller's dataset object as the     *)
(* last call left it.                                                       *)
(***************************************************************************)
EXTENDS Integers, Sequences, FiniteSets, TLC

VARIABLES df, prev, ops, diag, eager, passed
vars == <<df, prev, ops, diag, eager, passed>>

(* ---- bounds of the model ---- *)
MaxRows == 3
MaxSteps == 2
MaxSeries == 9
MaxValues == 5
YearDays == 2

(* ---- cells ---- *)
NaN == [k |-> "nan", v |-> 0]
Num(n) == [k |-> "num", v |-> n]
Txt(n) == [k |-> "txt", v |-> n]
Str(n) == [k |-> "str", v |-> n]
Day(n) == [k |-> "date", v |-> n]

isna(c) == c.k = "nan"
IsText(c) == c.k \in {"txt", "str"}

(* ---- column names, spelled out so that `'temp' in col` is a real substring test ---- *)
Chars(name) ==
  CASE name = "embalse_reserva" -> <<"e","m","b","a","l","s","e","_","r","e","s","e","r","v","a">>
    [] name = "embalse_porcentaje" -> <<"e","m","b","a","l","s","e","_","p","o","r","c","e","n","t","a","j","e">>
    [] name = "meteo_temp_max" -> <<"m","e","t","e","o","_","t","e","m","p","_","m","a","x">>
    [] name = "meteo_temp_min" -> <<"m","e","t","e","o","_","t","e","m","p","_","m","i","n">>
    [] name = "meteo_temp_media" -> <<"m","e","t","e","o","_","t","e","m","p","_","m","e","d","i","a">>
    [] name = "meteo_humedad_max" -> <<"m","e","t","e","o","_","h","u","m","e","d","a","d","_","m","a","x">>
    [] name = "meteo_humedad_min" -> <<"m","e","t","e","o","_","h","u","m","e","d","a","d","_","m","i","n">>
    [] name = "meteo_humedad_media" -> <<"m","e","t","e","o","_","h","u","m","e","d","a","d","_","m","e","d","i","a">>
    [] name = "meteo_vel_viento" -> <<"m","e","t","e","o","_","v","e","l","_","v","i","e","n","t","o">>
    [] name = "meteo_vel_viento_max" -> <<"m","e","t","e","o","_","v","e","l","_","v","i","e","n","t","o","_","m","a","x">>
    [] name = "meteo_dir_viento" -> <<"m","e","t","e","o","_","d","i","r","_","v","i","e","n","t","o">>
    [] name = "meteo_radiacion" -> <<"m","e","t","e","o","_","r","a","d","i","a","c","i","o","n">>
    [] name = "meteo_precipitacion" -> <<"m","e","t","e","o","_","p","r","e","c","i","p","i","t","a","c","i","o","n">>
    [] name = "date" -> <<"d","a","t","e">>
    [] name = "embalse_codigo" -> <<"e","m","b","a","l","s","e","_","c","o","d","i","g","o">>
    [] name = "embalse_nombre" -> <<"e","m","b","a","l","s","e","_","n","o","m","b","r","e">>
    [] name = "embalse_provincia" -> <<"e","m","b","a","l","s","e","_","p","r","o","v","i","n","c","i","a">>
    [] OTHER -> <<>>

IsSubstring(sub, s) ==
  \E i \in 1..(Len(s) - Len(sub) + 1) : SubSeq(s, i, i + Len(sub) - 1) = sub

S_temp == <<"t","e","m","p">>
S_humedad == <<"h","u","m","e","d","a","d">>
S_viento == <<"v","i","e","n","t","o">>
S_dir_viento == <<"d","i","r","_","v","i","e","n","t","o">>

numeric_columns ==
  <<"embalse_reserva", "embalse_porcentaje",
    "meteo_temp_max", "meteo_temp_min", "meteo_temp_media",
    "meteo_humedad_max", "meteo_humedad_min", "meteo_humedad_media",
    "meteo_vel_viento", "meteo_vel_viento_max", "meteo_dir_viento",
    "meteo_radiacion", "meteo_precipitacion">>

NumericColumnSet == {numeric_columns[i] : i \in 1..Len(numeric_columns)}

(* ---- rounding: Series.round(d) on exact decimals, ties to the even digit ---- *)
Quantum(d) == CASE d = 3 -> 10 [] d = 2 -> 100 [] d = 1 -> 1000 [] OTHER -> 1

(* a slip: always on to the next multiple *)
RoundToNext(v, q) == ((v \div q) + 1) * q

RoundTo(v, q) ==
  LET lo == (v \div q) * q
      r == v - lo
  IN IF 2 * r < q THEN lo
     ELSE IF 2 * r > q THEN lo + q
     ELSE IF (lo \div q) % 2 = 0 THEN lo ELSE lo + q

round(c, d) == IF c.k = "num" THEN Num(RoundTo(c.v, Quantum(d))) ELSE c

(* pd.to_numeric(errors='coerce'): numbers stay, text that parses becomes its
   number, anything else becomes missing. *)
(* a slip: errors='ignore' hands unparseable text back *)
to_numeric_ignore(c) == IF c.k = "txt" THEN Num(c.v) ELSE c

to_numeric(c) ==
  CASE c.k = "num" -> c
    [] c.k = "txt" -> Num(c.v)
    [] OTHER -> NaN

(* the if/elif chain of clean_numeric_columns: decimals for a column, 0 = the
   column falls through every branch and is not rounded *)
(* a slip: the humidity test comes after the wind test and never matches first *)
PrecisionTwoForMeteo(col) ==
  IF col \in {"embalse_reserva"} THEN 3
  ELSE IF col \in {"embalse_porcentaje"} THEN 1
  ELSE IF IsSubstring(<<"m","e","t","e","o">>, Chars(col)) THEN 2
  ELSE 0

Precision(col) ==
  IF col \in {"embalse_reserva"} THEN 3
  ELSE IF col \in {"embalse_porcentaje"} THEN 1
  ELSE IF IsSubstring(S_temp, Chars(col)) THEN 2
  ELSE IF IsSubstring(S_humedad, Chars(col)) THEN 1
  ELSE IF IsSubstring(S_viento, Chars(col)) \/ IsSubstring(S_dir_viento, Chars(col)) THEN 2
  ELSE IF col \in {"meteo_radiacion", "meteo_precipitacion"} THEN 2
  ELSE 0

CleanCell(col, c) ==
  LET n == to_numeric(c)
  IN IF Precision(col) = 0 THEN n ELSE round(n, Precision(col))

(* ---- datasets ---- *)
NRows(d) == Len(d.rows)
Column(d, c) == [i \in 1..NRows(d) |-> d.rows[i].cells[c]]
Result(okFlag, d, dg) == [ok |-> okFlag, df |-> d, diag |-> dg]
NoDiag == <<>>

clean_numeric_columns(d) ==
  LET present == NumericColumnSet \cap d.cols
      newRows == [i \in 1..NRows(d) |->
                    [d.rows[i] EXCEPT !.cells =
                       [c \in d.cols |-> IF c \in present
                                         THEN CleanCell(c, d.rows[i].cells[c])
                                         ELSE d.rows[i].cells[c]]]]
      newTypes == [c \in d.cols |-> IF c \in present THEN "float" ELSE d.dtypes[c]]
  IN Result(TRUE, [d EXCEPT !.rows = newRows, !.dtypes = newTypes], NoDiag)

(* ---- validate_ranges ---- *)
RangedColumns ==
  {"embalse_porcentaje", "meteo_temp_max", "meteo_temp_min", "meteo_temp_media",
   "meteo_humedad_max", "meteo_humedad_min", "meteo_humedad_media",
   "meteo_vel_viento", "meteo_vel_viento_max", "meteo_dir_viento",
   "meteo_radiacion", "meteo_precipitacion"}

(* (min, max) in whole units *)
ranges(col) ==
  CASE col = "embalse_porcentaje" -> <<0, 100>>
    [] col = "meteo_temp_max" -> <<-10, 50>>
    [] col = "meteo_temp_min" -> <<-15, 45>>
    [] col = "meteo_temp_media" -> <<-12, 47>>
    [] col = "meteo_humedad_max" -> <<0, 100>>
    [] col = "meteo_humedad_min" -> <<0, 100>>
    [] col = "meteo_humedad_media" -> <<0, 100>>
    [] col = "meteo_vel_viento" -> <<0, 50>>
    [] col = "meteo_vel_viento_max" -> <<0, 100>>
    [] col = "meteo_dir_viento" -> <<0, 360>>
    [] col = "meteo_radiacion" -> <<0, 40>>
    [] col = "meteo_precipitacion" -> <<0, 200>>

Units(n) == n * 10000

OutOfRange(col, c) ==
  c.k = "num" /\ (c.v < Units(ranges(col)[1]) \/ c.v > Units(ranges(col)[2]))

HasText(d, c) == \E i \in 1..NRows(d) : IsText(d.rows[i].cells[c])

(* a slip: the out-of-range values are clipped to the range *)
validate_ranges_clip(d) ==
  LET present == RangedColumns \cap d.cols
      clip(col, c) == IF ~OutOfRange(col, c) THEN c
                      ELSE IF c.v < Units(ranges(col)[1]) THEN Num(Units(ranges(col)[1]))
                      ELSE Num(Units(ranges(col)[2]))
  IN IF \E c \in present : HasText(d, c)
     THEN Result(FALSE, d, NoDiag)
     ELSE Result(TRUE,
            [d EXCEPT !.rows = [i \in 1..NRows(d) |->
               [d.rows[i] EXCEPT !.cells =
                  [c \in d.cols |-> IF c \in present THEN clip(c, d.rows[i].cells[c])
                                     ELSE d.rows[i].cells[c]]]]],
            [c \in present |->
               Cardinality({i \in 1..NRows(d) : OutOfRange(c, d.rows[i].cells[c])})])

(* The comparison `df[col] < min_val` raises TypeError on a text value; otherwise
   the copy is returned as it is and the counts are only printed. *)
validate_ranges(d) ==
  LET present == RangedColumns \cap d.cols
  IN IF \E c \in present : HasText(d, c)
     THEN Result(FALSE, d, NoDiag)
     ELSE Result(TRUE, d,
                 [c \in present |->
                    Cardinality({i \in 1..NRows(d) : OutOfRange(c, d.rows[i].cells[c])})])

(* ---- handle_missing_values ---- *)
SetMax(S) == CHOOSE m \in S : \A x \in S : x <= m
SetMin(S) == CHOOSE m \in S : \A x \in S : m <= x

(* select_dtypes(include=[np.number]) *)
NumberColumns(d) == {c \in d.cols : d.dtypes[c] = "float"}

SetColumns(d, cs, vals) ==
  [d EXCEPT !.rows = [i \in 1..NRows(d) |->
     [d.rows[i] EXCEPT !.cells =
        [c \in d.cols |-> IF c \in cs THEN vals[c][i] ELSE d.rows[i].cells[c]]]]]

(* fillna(method='ffill'): one pass down the column carrying the last value seen *)
RECURSIVE Pad(_, _, _)
Pad(col, i, last) ==
  IF i > Len(col) THEN <<>>
  ELSE LET cur == IF isna(col[i]) THEN last ELSE col[i]
       IN <<cur>> \o Pad(col, i + 1, cur)

(* a slip: the fill is done inside each entity's rows *)
ffill_by_entity(d) ==
  LET last(c, i) ==
        {j \in 1..(i - 1) : /\ ~isna(d.rows[j].cells[c])
                            /\ d.rows[j].cells["embalse_codigo"] = d.rows[i].cells["embalse_codigo"]}
      fill(c, i) == IF ~isna(d.rows[i].cells[c]) \/ last(c, i) = {} THEN d.rows[i].cells[c]
                    ELSE d.rows[SetMax(last(c, i))].cells[c]
  IN SetColumns(d, NumberColumns(d),
                [c \in NumberColumns(d) |-> [i \in 1..NRows(d) |-> fill(c, i)]])

ffill(d) ==
  LET filled == [c \in NumberColumns(d) |-> Pad(Column(d, c), 1, NaN)]
  IN SetColumns(d, NumberColumns(d), filled)

(* DataFrame.dropna(): no subset is given, so a missing value in any column
   drops the row *)
RowHasNa(d, r) == \E c \in d.cols : isna(r.cells[c])

dropna(d) == [d EXCEPT !.rows = SelectSeq(d.rows, LAMBDA r : ~RowHasNa(d, r))]

(* Series.interpolate(method='time'), limit_direction 'forward': the observed
   points are sorted by index value (np.argsort, whose order among equal index
   values is not specified: `tie` ranks the rows) and np.interp evaluates every
   missing position; positions before the first observed one are set back to
   missing. *)
Observed(d, c) == {i \in 1..NRows(d) : ~isna(d.rows[i].cells[c])}
HasGap(d, c) == Observed(d, c) # {} /\ Observed(d, c) # 1..NRows(d)

Pick(S, tie, last) ==
  CHOOSE j \in S : \A k \in S : IF last THEN tie[k] <= tie[j] ELSE tie[j] <= tie[k]

np_interp(d, c, i, tie) ==
  LET obs == Observed(d, c)
      x == d.rows[i].label
      xp(j) == d.rows[j].label
      fp(j) == d.rows[j].cells[c].v
      xmax == SetMax({xp(j) : j \in obs})
      xmin == SetMin({xp(j) : j \in obs})
  IN IF x > xmax THEN fp(Pick({j \in obs : xp(j) = xmax}, tie, TRUE))
     ELSE IF x < xmin THEN fp(Pick({j \in obs : xp(j) = xmin}, tie, FALSE))
     ELSE LET xlo == SetMax({xp(j) : j \in {k \in obs : xp(k) <= x}})
              a == Pick({j \in obs : xp(j) = xlo}, tie, TRUE)
          IN IF xlo = x \/ xlo = xmax THEN fp(a)
             ELSE LET xhi == SetMin({xp(j) : j \in {k \in obs : xp(k) > x}})
                      b == Pick({j \in obs : xp(j) = xhi}, tie, FALSE)
                  IN fp(a) + ((fp(b) - fp(a)) * (x - xlo)) \div (xhi - xlo)

interpolate_cell(d, c, i, tie) ==
  LET cell == d.rows[i].cells[c]
  IN IF ~isna(cell) \/ ~HasGap(d, c) THEN cell
     ELSE IF i < SetMin(Observed(d, c)) THEN NaN
     ELSE Num(np_interp(d, c, i, tie))

interpolate_time(d, tie) ==
  SetColumns(d, NumberColumns(d),
             [c \in NumberColumns(d) |-> [i \in 1..NRows(d) |-> interpolate_cell(d, c, i, tie)]])

Strategies == {"interpolate", "forward_fill", "drop", "other"}

(* env.tie: the order np.argsort leaves equal index values in; env.eager: whether
   the installed pandas rejects method='time' on a non-datetime index before
   looking at the column (2.x) or only once a column has a gap to fill (1.x); the
   installation is the same for every call of a run. *)
Envs(d, strategy) ==
  IF strategy = "interpolate" /\ d.index = "time"
  THEN {[tie |-> t, eager |-> eager] : t \in Permutations(1..NRows(d))}
  ELSE {[tie |-> [i \in 1..NRows(d) |-> i], eager |-> eager]}

handle_missing_values(d, strategy, env) ==
  CASE strategy = "interpolate" ->
         IF d.index = "time" THEN Result(TRUE, interpolate_time(d, env.tie), NoDiag)
         ELSE IF (env.eager /\ NumberColumns(d) # {}) \/ \E c \in NumberColumns(d) : HasGap(d, c)
              THEN Result(FALSE, d, NoDiag)
              ELSE Result(TRUE, d, NoDiag)
    [] strategy = "forward_fill" -> Result(TRUE, ffill(d), NoDiag)
    [] strategy = "drop" -> Result(TRUE, dropna(d), NoDiag)
    [] OTHER -> Result(TRUE, d, NoDiag)

(* ---- remove_duplicates ---- *)
(* a slip: the subset names the date alone *)
KeyOfDateOnly(r) == <<r.cells["date"]>>

KeyOf(r) == <<r.cells["date"], r.cells["embalse_codigo"]>>

(* drop_duplicates(subset=['date', 'embalse_codigo'], keep='first') *)
(* a slip: a row is dropped only when it repeats the row just before it *)
RECURSIVE drop_duplicates_adjacent(_, _, _)
drop_duplicates_adjacent(rows, i, seen) ==
  IF i > Len(rows) THEN <<>>
  ELSE IF i > 1 /\ KeyOf(rows[i]) = KeyOf(rows[i - 1])
       THEN drop_duplicates_adjacent(rows, i + 1, seen)
  ELSE <<rows[i]>> \o drop_duplicates_adjacent(rows, i + 1, seen)

RECURSIVE drop_duplicates(_, _, _)
drop_duplicates(rows, i, seen) ==
  IF i > Len(rows) THEN <<>>
  ELSE IF KeyOf(rows[i]) \in seen THEN drop_duplicates(rows, i + 1, seen)
  ELSE <<rows[i]>> \o drop_duplicates(rows, i + 1, seen \cup {KeyOf(rows[i])})

remove_duplicates(d) ==
  IF ~({"date", "embalse_codigo"} \subseteq d.cols) THEN Result(FALSE, d, NoDiag)
  ELSE LET kept == drop_duplicates(d.rows, 1, {})
       IN Result(TRUE, [d EXCEPT !.rows = kept], NRows(d) - Len(kept))

(* ---- add_derived_features ---- *)
(* calendar of the date cells: day 1 is 2020-01-01 *)
IsLeap(y) == (y % 4 = 0 /\ y % 100 # 0) \/ y % 400 = 0
YearLen(y) == IF IsLeap(y) THEN 366 ELSE 365
MonthLen(y, m) ==
  IF m = 2 THEN (IF IsLeap(y) THEN 29 ELSE 28)
  ELSE IF m \in {4, 6, 9, 11} THEN 30 ELSE 31

RECURSIVE YearDay(_, _)
YearDay(y, n) == IF n <= YearLen(y) THEN <<y, n>> ELSE YearDay(y + 1, n - YearLen(y))

RECURSIVE MonthFrom(_, _, _)
MonthFrom(y, m, n) == IF n <= MonthLen(y, m) THEN m ELSE MonthFrom(y, m + 1, n - MonthLen(y, m))

dt_year(c) == YearDay(2020, c.v)[1]
dt_dayofyear(c) == YearDay(2020, c.v)[2]
dt_month(c) == MonthFrom(dt_year(c), 1, dt_dayofyear(c))

Winter == Str(101)
Spring == Str(102)
Summer == Str(103)
Autumn == Str(104)

season_map(m) ==
  CASE m \in {12, 1, 2} -> Winter
    [] m \in {3, 4, 5} -> Spring
    [] m \in {6, 7, 8} -> Summer
    [] m \in {9, 10, 11} -> Autumn

(* arithmetic of float columns: a missing operand gives a missing result *)
Sub(a, b) == IF a.k = "num" /\ b.k = "num" THEN Num(a.v - b.v) ELSE NaN
AddTenth(a, b) == IF a.k = "num" /\ b.k = "num" THEN Num(a.v + b.v \div 10) ELSE NaN

(* sort_values(['embalse_codigo', 'date']): a stable sort on the two keys *)
SortKeyLess(r1, i1, r2, i2) ==
  LET c1 == r1.cells["embalse_codigo"].v
      c2 == r2.cells["embalse_codigo"].v
      d1 == r1.cells["date"].v
      d2 == r2.cells["date"].v
  IN c1 < c2 \/ (c1 = c2 /\ d1 < d2) \/ (c1 = c2 /\ d1 = d2 /\ i1 < i2)

sort_values(rows) ==
  LET n == Len(rows)
      pos(i) == 1 + Cardinality({j \in 1..n : SortKeyLess(rows[j], j, rows[i], i)})
  IN [q \in 1..n |-> rows[CHOOSE i \in 1..n : pos(i) = q]]

(* groupby('embalse_codigo')[col].diff(periods) on the sorted rows *)
(* a slip: the difference is taken down the sorted column without grouping *)
diff_ungrouped(rows, col, periods, a) ==
  IF a - periods >= 1 THEN Sub(rows[a].cells[col], rows[a - periods].cells[col]) ELSE NaN

group_diff(rows, col, periods, a) ==
  IF a - periods >= 1
     /\ rows[a - periods].cells["embalse_codigo"] = rows[a].cells["embalse_codigo"]
  THEN Sub(rows[a].cells[col], rows[a - periods].cells[col])
  ELSE NaN

DerivedPairs ==
  {<<"meteo_temp_range", "meteo_temp_max", "meteo_temp_min">>,
   <<"meteo_humedad_range", "meteo_humedad_max", "meteo_humedad_min">>}

HeatInputs == {"meteo_temp_media", "meteo_humedad_media"}

DerivedColumns(d) ==
  {"year", "month", "day_of_year", "season", "reservoir_change", "reservoir_change_7d"}
  \cup {t[1] : t \in {u \in DerivedPairs : {u[2], u[3]} \subseteq d.cols}}
  \cup (IF HeatInputs \subseteq d.cols THEN {"heat_stress_index"} ELSE {})

(* what makes the call raise: a column it indexes is absent (KeyError), or a
   column it subtracts holds text (TypeError) *)
DerivedFails(d) ==
  \/ ~({"date", "embalse_codigo", "embalse_porcentaje"} \subseteq d.cols)
  \/ HasText(d, "embalse_porcentaje")
  \/ \E t \in DerivedPairs : {t[2], t[3]} \subseteq d.cols /\ (HasText(d, t[2]) \/ HasText(d, t[3]))
  \/ HeatInputs \subseteq d.cols /\ \E c \in HeatInputs : HasText(d, c)

DerivedCell(d, sorted, a, c) ==
  LET r == sorted[a]
  IN CASE c = "year" -> Num(Units(dt_year(r.cells["date"])))
       [] c = "month" -> Num(Units(dt_month(r.cells["date"])))
       [] c = "day_of_year" -> Num(Units(dt_dayofyear(r.cells["date"])))
       [] c = "season" -> season_map(dt_month(r.cells["date"]))
       [] c = "meteo_temp_range" -> Sub(r.cells["meteo_temp_max"], r.cells["meteo_temp_min"])
       [] c = "meteo_humedad_range" -> Sub(r.cells["meteo_humedad_max"], r.cells["meteo_humedad_min"])
       [] c = "heat_stress_index" -> AddTenth(r.cells["meteo_temp_media"], r.cells["meteo_humedad_media"])
       [] c = "reservoir_change" -> group_diff(sorted, "embalse_porcentaje", 1, a)
       [] c = "reservoir_change_7d" -> group_diff(sorted, "embalse_porcentaje", 7, a)
       [] OTHER -> r.cells[c]

(* the result of arithmetic on object columns is an object column *)
DerivedType(d, c) ==
  LET inputs == CASE c = "meteo_temp_range" -> {"meteo_temp_max", "meteo_temp_min"}
                  [] c = "meteo_humedad_range" -> {"meteo_humedad_max", "meteo_humedad_min"}
                  [] c = "heat_stress_index" -> HeatInputs
                  [] c \in {"reservoir_change", "reservoir_change_7d"} -> {"embalse_porcentaje"}
                  [] OTHER -> {}
  IN IF c = "season" \/ \E i \in inputs : d.dtypes[i] = "object" THEN "object" ELSE "float"

add_derived_features(d) ==
  IF DerivedFails(d) THEN Result(FALSE, d, NoDiag)
  ELSE LET sorted == sort_values(d.rows)
           newCols == d.cols \cup DerivedColumns(d)
           newRows == [a \in 1..NRows(d) |->
                         [sorted[a] EXCEPT !.cells =
                            [c \in newCols |-> IF c \in DerivedColumns(d)
                                               THEN DerivedCell(d, sorted, a, c)
                                               ELSE sorted[a].cells[c]]]]
           newTypes == [c \in newCols |->
                          IF c \in DerivedColumns(d) THEN DerivedType(d, c) ELSE d.dtypes[c]]
       IN Result(TRUE, [d EXCEPT !.cols = newCols, !.dtypes = newTypes, !.rows = newRows],
                 NoDiag)

(* ---- clean: the cleaning contract of the specification (section 4.1), the four
   steps in the order it lists them; a step that raises ends the run ---- *)
clean(d, strategy, env) ==
  LET r1 == clean_numeric_columns(d)
      r2 == validate_ranges(r1.df)
      r3 == handle_missing_values(r2.df, strategy, env)
      r4 == remove_duplicates(r3.df)
  IN IF ~r2.ok THEN Result(FALSE, d, NoDiag)
     ELSE IF ~r3.ok THEN Result(FALSE, d, NoDiag)
     ELSE IF ~r4.ok THEN Result(FALSE, d, NoDiag)
     ELSE r4

(* ---- the caller: holds a dataset and applies one operation after another; a
   call that raises leaves the caller's dataset as it was ---- *)
Op(name, arg, okFlag) == [name |-> name, arg |-> arg, ok |-> okFlag]
Last == ops[Len(ops)]
Did(name) == Len(ops) > 0 /\ Last.name = name /\ Last.ok
DidArg(name, arg) == Did(name) /\ Last.arg = arg

(* The object an operation assigns to.  Every Cleaner method starts with
   df.copy(); remove_duplicates works on what drop_duplicates returns and the two
   sorting checks on what sort_values returns; the analyzer keeps data.copy() and
   its methods copy that again.  The other checks only read df. *)
(* a slip: check_reservoir_consistency sorts df in place and adds its column there *)
WorkingFrameSortInPlace(name) ==
  CASE name \in {"clean_numeric_columns", "validate_ranges", "handle_missing_values",
                 "add_derived_features", "clean"} -> "df.copy()"
    [] name = "remove_duplicates" -> "df.drop_duplicates()"
    [] name = "check_temporal_consistency" -> "df.sort_values()"
    [] name \in {"seasonal_analysis", "trend_analysis"} -> "data.copy()"
    [] OTHER -> "df"

WorkingFrame(name) ==
  CASE name \in {"clean_numeric_columns", "validate_ranges", "handle_missing_values",
                 "add_derived_features", "clean"} -> "df.copy()"
    [] name = "remove_duplicates" -> "df.drop_duplicates()"
    [] name \in {"check_temporal_consistency", "check_reservoir_consistency"} -> "df.sort_values()"
    [] name \in {"seasonal_analysis", "trend_analysis"} -> "data.copy()"
    [] OTHER -> "df"

(* the caller's object after a call that left its working frame as `local` *)
ArgAfter(name, d, local) == IF WorkingFrame(name) = "df" THEN local ELSE d

Apply(name, arg, res) ==
  /\ Len(ops) < MaxSteps
  /\ df' = res.df
  /\ prev' = df
  /\ ops' = Append(ops, Op(name, arg, res.ok))
  /\ diag' = res.diag
  /\ passed' = ArgAfter(name, df, res.df)
  /\ UNCHANGED eager

CleanNumericColumns == Apply("clean_numeric_columns", "", clean_numeric_columns(df))

ValidateRanges == Apply("validate_ranges", "", validate_ranges(df))

HandleMissingValues ==
  \E strategy \in Strategies : \E env \in Envs(df, strategy) :
    Apply("handle_missing_values", strategy, handle_missing_values(df, strategy, env))

AddDerivedFeatures == Apply("add_derived_features", "", add_derived_features(df))

RemoveDuplicates == Apply("remove_duplicates", "", remove_duplicates(df))

Clean ==
  \E strategy \in Strategies \ {"other"} : \E env \in Envs(clean_numeric_columns(df).df, strategy) :
    Apply("clean", strategy, clean(df, strategy, env))

(* ---- input datasets ---- *)
TypeOfColumn(cells) ==
  IF \A i \in DOMAIN cells : cells[i].k = "date" THEN "datetime"
  ELSE IF \A i \in DOMAIN cells : cells[i].k \in {"num", "nan"} THEN "float"
  ELSE "object"

(* a dataset as the loader builds it (index "range": labels 0, 1, ..) or with its
   dates as the index (index "time") *)
MkFrame(kind, cellRows) ==
  LET cs == DOMAIN cellRows[1]
  IN [index |-> kind,
      cols |-> cs,
      dtypes |-> [c \in cs |-> TypeOfColumn([i \in DOMAIN cellRows |-> cellRows[i][c]])],
      rows |-> [i \in DOMAIN cellRows |->
                  [label |-> IF kind = "time" THEN cellRows[i]["date"].v ELSE i - 1,
                   cells |-> cellRows[i]]]]

Frames(kinds, rowSet, maxRows) ==
  {MkFrame(k, rs) : k \in kinds, rs \in UNION {[1..n -> rowSet] : n \in 1..maxRows}}

Start(d, installs) ==
  /\ df = d
  /\ prev = d
  /\ ops = <<>>
  /\ diag = NoDiag
  /\ eager \in installs
  /\ passed = d

(* datasets with repeated (date, entity) keys *)
KeyRows ==
  {[date |-> Day(t), embalse_codigo |-> Str(e), embalse_porcentaje |-> Num(p)] :
     t \in {1, 2}, e \in {1, 2}, p \in {500000, 503000}}

InitKeys == \E d \in Frames({"range", "time"}, KeyRows, MaxRows) : Start(d, {FALSE})

SpecKeys == InitKeys /\ [][RemoveDuplicates]_vars

(* datasets with one value column: a declared numeric field or a text field *)
RawCells == {NaN, Str(0), Txt(501235), Num(-201235), Num(502500), Num(4001500)}

ValueColumns == NumericColumnSet \cup {"embalse_nombre"}

ValueFrames(maxRows) ==
  {MkFrame("range", [i \in 1..n |-> [c \in {"date", col} |-> IF c = "date" THEN Day(i) ELSE vals[i]]]) :
     <<n, col, vals>> \in UNION {UNION {{<<n, col, vals>> : vals \in [1..n -> RawCells]} :
                                          col \in ValueColumns} : n \in 1..maxRows}}

InitRound == \E d \in ValueFrames(MaxRows) : Start(d, {FALSE})

NextRound == CleanNumericColumns \/ ValidateRanges

SpecRound == InitRound /\ [][NextRound]_vars

(* datasets of two entities over three days with gaps in the storage percentage *)
FillRows ==
  {[date |-> Day(t), embalse_codigo |-> Str(e), embalse_porcentaje |-> p] :
     t \in {1, 2, 3}, e \in {1, 2}, p \in {NaN, Num(500000), Num(501000)}}

InitFill == \E d \in Frames({"range", "time"}, FillRows, MaxRows) : Start(d, BOOLEAN)

SpecFill == InitFill /\ [][HandleMissingValues]_vars

SpecClean == InitFill /\ [][Clean]_vars

(* datasets with gaps in the storage percentage, read as numbers or left as text *)
PadRows ==
  {[date |-> Day(1), embalse_codigo |-> Str(e), embalse_porcentaje |-> p] :
     e \in {1, 2}, p \in {NaN, Num(500000), Num(501000), Str(0)}}

InitPad == \E d \in Frames({"range"}, PadRows, MaxRows) : Start(d, BOOLEAN)

SpecPad == InitPad /\ [][HandleMissingValues]_vars

(* datasets with gaps in a numeric field and in a text field *)
DropRows ==
  {[date |-> Day(1), embalse_codigo |-> Str(e), embalse_nombre |-> n, embalse_porcentaje |-> p] :
     e \in {1, 2}, n \in {NaN, Str(7)}, p \in {NaN, Num(500000)}}

InitDrop == \E d \in Frames({"range", "time"}, DropRows, MaxRows) : Start(d, BOOLEAN)

SpecDrop == InitDrop /\ [][HandleMissingValues]_vars

(* longer series: entity 1 on days 1..na, entity 2 on days 1..nb, the storage
   percentage following one of two profiles (the second with a gap on day 2),
   optionally a repeated (entity 1, day 1) row, the rows in one of several orders *)
SeriesValue(profile, e, t) ==
  IF profile = 2 /\ t = 2 THEN NaN ELSE Num(500000 + 1000 * t * t + 7000 * (e - 1))

SeriesRow(profile, e, t) ==
  [date |-> Day(t), embalse_codigo |-> Str(e), embalse_porcentaje |-> SeriesValue(profile, e, t)]

SeriesBase(profile, na, nb, dup) ==
  [t \in 1..na |-> SeriesRow(profile, 1, t)]
  \o [t \in 1..nb |-> SeriesRow(profile, 2, t)]
  \o (IF dup THEN <<[SeriesRow(profile, 1, 1) EXCEPT !.embalse_porcentaje = Num(999000)]>> ELSE <<>>)

Orders == {"as built", "reversed", "rotated", "by date"}

Reorder(rows, order) ==
  LET n == Len(rows)
      byDate(i) == 1 + Cardinality({j \in 1..n : \/ rows[j].date.v < rows[i].date.v
                                                 \/ rows[j].date.v = rows[i].date.v /\ j < i})
  IN CASE order = "reversed" -> [i \in 1..n |-> rows[n + 1 - i]]
       [] order = "rotated" -> [i \in 1..n |-> rows[((i + 2) % n) + 1]]
       [] order = "by date" -> [q \in 1..n |-> rows[CHOOSE i \in 1..n : byDate(i) = q]]
       [] OTHER -> rows

SeriesFrames(maxSeries) ==
  {MkFrame(k, Reorder(SeriesBase(pr, na, nb, dup), order)) :
     <<k, pr, na, nb, dup, order>> \in
        {x \in {"range", "time"} \X {1, 2} \X (0..maxSeries) \X (0..2) \X BOOLEAN \X Orders :
           x[3] + x[4] >= 1}}

InitDerive ==
  \E d \in SeriesFrames(MaxSeries) \cup Frames({"range"}, KeyRows, MaxRows) : Start(d, {FALSE})

SpecDerive == InitDerive /\ [][AddDerivedFeatures]_vars

(* ======================= claims ======================= *)
SameKey(r1, r2) ==
  /\ r1.cells["date"] = r2.cells["date"]
  /\ r1.cells["embalse_codigo"] = r2.cells["embalse_codigo"]

(* positions of the input rows that are the first of their (date, entity) key *)
FirstPositions(rows) ==
  {i \in 1..Len(rows) : \A j \in 1..(i - 1) : ~SameKey(rows[j], rows[i])}

NthOf(S, a) == CHOOSE i \in S : Cardinality({j \in S : j <= i}) = a

Occurrences(rows, i) == Cardinality({j \in 1..Len(rows) : SameKey(rows[j], rows[i])})

RECURSIVE SumExtra(_, _)
SumExtra(rows, S) ==
  IF S = {} THEN 0
  ELSE LET i == CHOOSE x \in S : TRUE
       IN (Occurrences(rows, i) - 1) + SumExtra(rows, S \ {i})

(* C1: remove_duplicates returns exactly one row per distinct (date, embalse_codigo)
   key, that row is the key's first occurrence in input order with its values,
   surviving rows keep their input order, and the row count drops by the sum over
   the keys of (occurrences - 1), which is also the count it reports. *)
C1_RemoveDuplicatesKeepsFirst ==
  Did("remove_duplicates") =>
    LET fp == FirstPositions(prev.rows)
    IN /\ Len(df.rows) = Cardinality(fp)
       /\ \A a \in 1..Len(df.rows) : df.rows[a] = prev.rows[NthOf(fp, a)]
       /\ \A a, b \in 1..Len(df.rows) : a # b => ~SameKey(df.rows[a], df.rows[b])
       /\ \A i \in 1..Len(prev.rows) : \E a \in 1..Len(df.rows) : SameKey(df.rows[a], prev.rows[i])
       /\ Len(prev.rows) - Len(df.rows) = SumExtra(prev.rows, fp)
       /\ diag = Len(prev.rows) - Len(df.rows)
       /\ df.cols = prev.cols /\ df.index = prev.index

(* a key repeated with different values, after another key: the first one's values
   are the ones that must survive *)
C1_Witness ==
  /\ Did("remove_duplicates")
  /\ Len(prev.rows) = 3 /\ Len(df.rows) = 2
  /\ SameKey(prev.rows[2], prev.rows[3])
  /\ prev.rows[2].cells["embalse_porcentaje"] # prev.rows[3].cells["embalse_porcentaje"]
  /\ df.rows[2].cells["embalse_porcentaje"] = prev.rows[2].cells["embalse_porcentaje"]

(* C3: rounding in clean_numeric_columns is idempotent: cleaning the already
   cleaned dataset again gives the same dataset (the function is a function of its
   input, so two runs on one input agree). *)
C3_RoundingIdempotent ==
  (/\ Len(ops) >= 2
   /\ Did("clean_numeric_columns")
   /\ ops[Len(ops) - 1].name = "clean_numeric_columns") => df = prev

(* a value that the first pass did change, in a column that is rounded *)
C3_Witness ==
  /\ Len(ops) >= 2
  /\ Did("clean_numeric_columns")
  /\ ops[Len(ops) - 1].name = "clean_numeric_columns"
  /\ "embalse_reserva" \in df.cols
  /\ df.rows[1].cells["embalse_reserva"] = Num(-201240)

(* the precision of each field family, as the specification lists them *)
FamilyDecimals(col) ==
  CASE col = "embalse_reserva" -> 3
    [] col = "embalse_porcentaje" -> 1
    [] col \in {"meteo_temp_max", "meteo_temp_min", "meteo_temp_media"} -> 2
    [] col \in {"meteo_humedad_max", "meteo_humedad_min", "meteo_humedad_media"} -> 1
    [] col \in {"meteo_vel_viento", "meteo_vel_viento_max", "meteo_dir_viento"} -> 2
    [] col \in {"meteo_radiacion", "meteo_precipitacion"} -> 2

Abs(x) == IF x < 0 THEN -x ELSE x

(* w is v rounded to `decimals` decimals, ties to the even digit *)
IsRounding(v, w, decimals) ==
  LET q == CASE decimals = 3 -> 10 [] decimals = 2 -> 100 [] decimals = 1 -> 1000
  IN /\ w % q = 0
     /\ 2 * Abs(w - v) <= q
     /\ (2 * Abs(w - v) = q => (w \div q) % 2 = 0)

(* C4: clean_numeric_columns rounds every declared numeric field to the precision
   of its family (3 / 1 / 2 / 1 / 2 / 2 decimals), as an exact lookup by field name
   would; a column that is not declared is left as it is. *)
C4_FamilyPrecision ==
  Did("clean_numeric_columns") =>
    \A i \in 1..NRows(prev) : \A c \in prev.cols :
      LET old == prev.rows[i].cells[c]
          new == df.rows[i].cells[c]
      IN IF c \in NumericColumnSet
         THEN old.k \in {"num", "txt"} =>
                new.k = "num" /\ IsRounding(old.v, new.v, FamilyDecimals(c))
         ELSE new = old

(* 50.1235 -> 50.1 for the storage percentage *)
C4_Witness ==
  /\ Did("clean_numeric_columns")
  /\ "embalse_porcentaje" \in df.cols
  /\ prev.rows[1].cells["embalse_porcentaje"] = Txt(501235)
  /\ df.rows[1].cells["embalse_porcentaje"] = Num(501000)

(* C5: validate_ranges is non-destructive: what it returns is the input, row for
   row and value for value, out-of-range values included; they are only counted. *)
C5_ValidateRangesNonDestructive ==
  Did("validate_ranges") =>
    /\ df = prev
    /\ \A c \in RangedColumns \cap prev.cols :
         diag[c] = Cardinality({i \in 1..NRows(prev) :
                                  /\ prev.rows[i].cells[c].k = "num"
                                  /\ \/ prev.rows[i].cells[c].v < ranges(c)[1] * 10000
                                     \/ prev.rows[i].cells[c].v > ranges(c)[2] * 10000})

(* a storage percentage of 400.15 and one of -20.1235 are counted and kept *)
C5_Witness ==
  /\ Did("validate_ranges")
  /\ "embalse_porcentaje" \in df.cols
  /\ NRows(df) = 2
  /\ df.rows[1].cells["embalse_porcentaje"] = Num(4001500)
  /\ df.rows[2].cells["embalse_porcentaje"] = Num(-201235)
  /\ diag["embalse_porcentaje"] = 2

(* C6: clean_numeric_columns never fails; in a declared numeric field a value
   that is no number becomes missing, a value that parses is kept (rounded), and
   every row is kept. *)
C6_UnparseableBecomesMissing ==
  (Len(ops) > 0 /\ Last.name = "clean_numeric_columns") =>
    /\ Last.ok
    /\ NRows(df) = NRows(prev)
    /\ \A i \in 1..NRows(prev) :
         /\ df.rows[i].label = prev.rows[i].label
         /\ df.rows[i].cells["date"] = prev.rows[i].cells["date"]
         /\ \A c \in NumericColumnSet \cap prev.cols :
              LET old == prev.rows[i].cells[c]
                  new == df.rows[i].cells[c]
              IN /\ old.k \in {"str", "nan"} => new = NaN
                 /\ old.k \in {"num", "txt"} => new.k = "num" /\ 2 * Abs(new.v - old.v) <= 1000

(* a column with text that is no number beside a value that parses *)
C6_Witness ==
  /\ Did("clean_numeric_columns")
  /\ "meteo_temp_max" \in df.cols
  /\ NRows(df) = 2
  /\ prev.rows[1].cells["meteo_temp_max"] = Str(0)
  /\ prev.rows[2].cells["meteo_temp_max"] = Txt(501235)
  /\ df.rows[1].cells["meteo_temp_max"] = NaN
  /\ df.rows[2].cells["meteo_temp_max"] = Num(501200)

(* C8: with forward_fill, every missing value of a numeric column that has an
   observed value before it in the column takes the last such value, a leading
   missing value stays missing, no observed value changes; so a column whose first
   value is observed ends with no missing value. Numeric columns are the columns
   of a number dtype, as handle_missing_values selects them. *)
C8_ForwardFill ==
  DidArg("handle_missing_values", "forward_fill") =>
    /\ NRows(df) = NRows(prev)
    /\ \A i \in 1..NRows(prev) : \A c \in prev.cols :
         LET old == prev.rows[i].cells[c]
             new == df.rows[i].cells[c]
             before == {j \in 1..(i - 1) : prev.rows[j].cells[c].k = "num"}
         IN IF prev.dtypes[c] = "float" /\ old.k = "nan"
            THEN IF before = {} THEN new = NaN
                 ELSE new = prev.rows[CHOOSE j \in before : \A k \in before : k <= j].cells[c]
            ELSE new = old
    /\ \A c \in prev.cols :
         (NRows(prev) > 0 /\ prev.dtypes[c] = "float" /\ prev.rows[1].cells[c].k = "num")
           => \A i \in 1..NRows(df) : df.rows[i].cells[c].k = "num"

(* a gap in one entity's first row is filled from the row of the other entity
   above it, and a leading gap stays *)
C8_Witness ==
  /\ DidArg("handle_missing_values", "forward_fill")
  /\ NRows(prev) = 3
  /\ prev.dtypes["embalse_porcentaje"] = "float"
  /\ prev.rows[1].cells["embalse_porcentaje"] = NaN
  /\ prev.rows[2].cells["embalse_porcentaje"] = Num(501000)
  /\ prev.rows[3].cells["embalse_porcentaje"] = NaN
  /\ prev.rows[2].cells["embalse_codigo"] # prev.rows[3].cells["embalse_codigo"]
  /\ df.rows[1].cells["embalse_porcentaje"] = NaN
  /\ df.rows[3].cells["embalse_porcentaje"] = Num(501000)

(* C9 (as claimed): with drop, the result is exactly the input rows that have no
   missing value in a numeric field, in input order; a row whose only missing
   value is in a text field is kept. *)
C9_DropOnlyNumericGaps ==
  DidArg("handle_missing_values", "drop") =>
    df.rows = SelectSeq(prev.rows,
                        LAMBDA r : \A c \in NumericColumnSet \cap prev.cols : ~isna(r.cells[c]))

(* C7 (as claimed): with interpolate, a missing value is filled only from the
   nearest earlier and later observed values of its own entity, weighted by the
   time between the dates; without an observed value of the entity on both sides
   it stays missing; observed values do not change. *)
C7_InterpolateWithinEntity ==
  DidArg("handle_missing_values", "interpolate") =>
    \A i \in 1..NRows(prev) :
      LET c == "embalse_porcentaje"
          old == prev.rows[i].cells[c]
          new == df.rows[i].cells[c]
          t(j) == prev.rows[j].cells["date"].v
          own == {j \in 1..NRows(prev) :
                    /\ prev.rows[j].cells["embalse_codigo"] = prev.rows[i].cells["embalse_codigo"]
                    /\ prev.rows[j].cells[c].k = "num"}
          earlier == {j \in own : t(j) < t(i)}
          later == {j \in own : t(j) > t(i)}
          a == {j \in earlier : \A k \in earlier : t(k) <= t(j)}
          b == {j \in later : \A k \in later : t(j) <= t(k)}
      IN IF old.k # "nan" THEN new = old
         ELSE IF earlier = {} \/ later = {} THEN new = NaN
         ELSE \E ja \in a, jb \in b :
                /\ new.k = "num"
                /\ (new.v - prev.rows[ja].cells[c].v) * (t(jb) - t(ja))
                     = (prev.rows[jb].cells[c].v - prev.rows[ja].cells[c].v) * (t(i) - t(ja))

(* C2 (as claimed): cleaning is idempotent for every strategy: a second clean of
   the cleaned dataset returns it unchanged. *)
C2_CleanIdempotent ==
  (/\ Len(ops) >= 2
   /\ ops[Len(ops) - 1] = Op("clean", Last.arg, TRUE)
   /\ Last.name = "clean") => (Last.ok /\ df = prev)

(* row j comes before row i in the chronological sequence of i's entity (rows of
   one date stay in input order) *)
ChronoBefore(rows, j, i) ==
  /\ rows[j].cells["embalse_codigo"] = rows[i].cells["embalse_codigo"]
  /\ \/ rows[j].cells["date"].v < rows[i].cells["date"].v
     \/ rows[j].cells["date"].v = rows[i].cells["date"].v /\ j < i

ChronoRank(rows, i) == Cardinality({j \in 1..Len(rows) : ChronoBefore(rows, j, i)})

ExpectedChange(rows, i, periods) ==
  IF ChronoRank(rows, i) < periods THEN NaN
  ELSE LET j == CHOOSE k \in 1..Len(rows) :
                  /\ rows[k].cells["embalse_codigo"] = rows[i].cells["embalse_codigo"]
                  /\ ChronoRank(rows, k) = ChronoRank(rows, i) - periods
           x == rows[i].cells["embalse_porcentaje"]
           y == rows[j].cells["embalse_porcentaje"]
       IN IF x.k = "num" /\ y.k = "num" THEN Num(x.v - y.v) ELSE NaN

OutputPosition(rows, i) ==
  1 + Cardinality({j \in 1..Len(rows) :
                     \/ rows[j].cells["embalse_codigo"].v < rows[i].cells["embalse_codigo"].v
                     \/ ChronoBefore(rows, j, i)})

(* C10: in the output of add_derived_features, whatever the input row order,
   reservoir_change of a row is its storage percentage minus that of its entity's
   preceding row in date order, reservoir_change_7d uses the entity's row 7
   places earlier, both are missing when the entity has no such row, and no
   difference is taken between rows of two entities. *)
C10_ChangesWithinEntity ==
  Did("add_derived_features") =>
    /\ NRows(df) = NRows(prev)
    /\ \A i \in 1..NRows(prev) :
         LET out == df.rows[OutputPosition(prev.rows, i)]
         IN /\ out.label = prev.rows[i].label
            /\ \A c \in {"date", "embalse_codigo", "embalse_porcentaje"} :
                 out.cells[c] = prev.rows[i].cells[c]
            /\ out.cells["reservoir_change"] = ExpectedChange(prev.rows, i, 1)
            /\ out.cells["reservoir_change_7d"] = ExpectedChange(prev.rows, i, 7)

(* an unsorted input of two entities, the first with at least 8 rows: its 8th
   row has a 7-day change, the second entity's first row, which follows it in the
   sorted output, has none *)
C10_Witness ==
  /\ Did("add_derived_features")
  /\ Len(ops) = 1
  /\ NRows(df) >= 10
  /\ prev.rows[1].cells["embalse_codigo"] = Str(2)
  /\ df.rows[8].cells["embalse_codigo"] = Str(1)
  /\ df.rows[8].cells["reservoir_change_7d"] = Num(63000)
  /\ df.rows[8].cells["reservoir_change"] = Num(15000)
  /\ \E a \in 2..NRows(df) :
       /\ df.rows[a].cells["embalse_codigo"] = Str(2)
       /\ df.rows[a - 1].cells["embalse_codigo"] = Str(1)
       /\ df.rows[a].cells["reservoir_change"] = NaN
       /\ df.rows[a].cells["embalse_porcentaje"].k = "num"
       /\ df.rows[a - 1].cells["embalse_porcentaje"].k = "num"

(* ==== datasets shaped like the fixtures of tests/test_data_processing.py ==== *)

(* the Cleaner fixture: date, storage percentage, max and min temperature and
   precipitation; withCode adds the entity-code column the fixture does not have *)
FixtureRows(withCode) ==
  {[c \in {"date", "embalse_porcentaje", "meteo_temp_max", "meteo_temp_min", "meteo_precipitacion"}
          \cup (IF withCode THEN {"embalse_codigo"} ELSE {}) |->
      CASE c = "date" -> Day(t)
        [] c = "embalse_porcentaje" -> p
        [] c = "meteo_temp_max" -> hi
        [] c = "meteo_temp_min" -> lo
        [] c = "meteo_precipitacion" -> Num(0)
        [] OTHER -> Str(1)] :
     t \in {1, 2}, p \in {NaN, Num(450000)}, hi \in {Num(251200), Num(300000)},
     lo \in {NaN, Num(150000)}}

InitFixture ==
  \E withCode \in BOOLEAN : \E d \in Frames({"range"}, FixtureRows(withCode), MaxRows) :
    Start(d, {FALSE})

SpecFixture == InitFixture /\ [][AddDerivedFeatures]_vars

(* C11: on every dataset that has the date and the max and min temperature
   columns, add_derived_features returns a dataset with the columns year, month,
   season and meteo_temp_range. *)
C11_DerivedColumnsAdded ==
  (/\ Len(ops) > 0
   /\ Last.name = "add_derived_features"
   /\ {"date", "meteo_temp_max", "meteo_temp_min"} \subseteq prev.cols)
  => /\ Last.ok
     /\ {"year", "month", "season", "meteo_temp_range"} \subseteq df.cols

(* ==== DataValidator (src/src/data_processing/validator.py) ==== *)

(* what a check returns: the report, or ok = FALSE when it raises *)
Checked(okFlag, rep) == [ok |-> okFlag, report |-> rep]

Raised == Checked(FALSE, NoDiag)

(* a / b as numpy divides: 0 / 0 is nan (den = 0), with a warning and no error *)
Fraction(a, b) == [num |-> a, den |-> b]

(* ---- check_data_completeness ---- *)
(* df[col].notna().sum() *)
non_null_count(d, c) == Cardinality({i \in 1..NRows(d) : ~isna(d.rows[i].cells[c])})

check_data_completeness(d) ==
  Checked(TRUE, [c \in d.cols |-> Fraction(100 * non_null_count(d, c), NRows(d))])

(* ---- check_temporal_consistency ---- *)
(* xs in ascending order *)
Sorted(xs) ==
  [i \in 1..Len(xs) |->
     CHOOSE v \in {xs[j] : j \in 1..Len(xs)} :
       /\ Cardinality({j \in 1..Len(xs) : xs[j] < v}) < i
       /\ i <= Cardinality({j \in 1..Len(xs) : xs[j] <= v})]

Dates(d) == [i \in 1..NRows(d) |-> d.rows[i].cells["date"].v]

(* df.sort_values('date')['date'].diff().dt.days without its leading NaT *)
date_diffs(d) ==
  LET s == Sorted(Dates(d))
  IN [i \in 1..(NRows(d) - 1) |-> s[i + 1] - s[i]]

(* Series.median(): the middle value, or the mean of the two middle values; nan
   when there is none *)
median(xs) ==
  LET s == Sorted(xs)
      n == Len(xs)
  IN IF n = 0 THEN NaN
     ELSE IF n % 2 = 1 THEN Num(Units(s[(n + 1) \div 2]))
     ELSE Num(Units(s[n \div 2] + s[n \div 2 + 1]) \div 2)

(* KeyError without a date column; on no rows min and max are NaT and every
   day count is nan *)
check_temporal_consistency(d) ==
  IF "date" \notin d.cols THEN Raised
  ELSE LET n == NRows(d)
           ds == {Dates(d)[i] : i \in 1..n}
           gaps == date_diffs(d)
       IN Checked(TRUE,
            [date_range |-> IF n = 0 THEN <<NaN, NaN>> ELSE <<Day(SetMin(ds)), Day(SetMax(ds))>>,
             total_days |-> IF n = 0 THEN NaN ELSE Num(Units(SetMax(ds) - SetMin(ds))),
             unique_dates |-> Cardinality(ds),
             duplicate_dates |-> n - Cardinality(ds),
             missing_days |-> 0,
             median_gap_days |-> median(gaps),
             max_gap_days |-> IF n <= 1 THEN NaN
                              ELSE Num(Units(SetMax({gaps[i] : i \in 1..(n - 1)})))])

(* ---- comparisons of column values ---- *)
(* a > b, elementwise: False when either side is missing; text against text
   compares as strings (texts are named in their order) *)
Greater(a, b) ==
  IF IsText(a) /\ IsText(b) THEN a.v > b.v
  ELSE a.k = "num" /\ b.k = "num" /\ a.v > b.v

(* text against a number (or nan) is a TypeError *)
Incomparable(a, b) == IsText(a) # IsText(b)

(* df[mask].index.tolist(): the labels of the rows at the positions S, in row order *)
LabelsAt(rows, S) ==
  [i \in 1..Cardinality(S) |->
     rows[CHOOSE q \in S : Cardinality({r \in S : r < q}) = i - 1].label]

(* ---- validate_weather_consistency ---- *)
(* rule name, then its columns from the smallest to the largest *)
OrderRules ==
  {<<"temperature_order", <<"meteo_temp_min", "meteo_temp_media", "meteo_temp_max">> >>,
   <<"humidity_order", <<"meteo_humedad_min", "meteo_humedad_media", "meteo_humedad_max">> >>,
   <<"wind_speed_order", <<"meteo_vel_viento", "meteo_vel_viento_max">> >>}

RuleColumns(rule) == {rule[2][i] : i \in 1..Len(rule[2])}

PresentRules(d) == {rule \in OrderRules : RuleColumns(rule) \subseteq d.cols}

(* a slip: the row is flagged only when min > max *)
OutOfOrderEnds(cells, columns) == Greater(cells[columns[1]], cells[columns[Len(columns)]])

(* (min > mean) | (mean > max), or mean speed > max speed *)
OutOfOrder(cells, columns) ==
  \E j \in 1..(Len(columns) - 1) : Greater(cells[columns[j]], cells[columns[j + 1]])

validate_weather_consistency(d) ==
  IF \E rule \in PresentRules(d) : \E i \in 1..NRows(d) : \E j \in 1..(Len(rule[2]) - 1) :
       Incomparable(d.rows[i].cells[rule[2][j]], d.rows[i].cells[rule[2][j + 1]])
  THEN Raised
  ELSE Checked(TRUE,
         [name \in {rule[1] : rule \in PresentRules(d)} |->
            LET rule == CHOOSE r \in PresentRules(d) : r[1] = name
            IN LabelsAt(d.rows, {i \in 1..NRows(d) : OutOfOrder(d.rows[i].cells, rule[2])})])

(* ---- check_reservoir_consistency ---- *)
PercentOutOfBounds(c) == c.k = "num" /\ (c.v < Units(0) \/ c.v > Units(100))

(* a slip: a change of 20 points or more is flagged *)
IsExtremeChangeAtLeast(c) == c.k = "num" /\ (c.v >= Units(20) \/ c.v <= -Units(20))

(* percentage_change.abs() > 20; False for a missing change *)
IsExtremeChange(c) == c.k = "num" /\ (c.v > Units(20) \/ c.v < -Units(20))

(* df_sorted: the sorted copy with its percentage_change column *)
reservoir_sorted(d) ==
  LET sorted == sort_values(d.rows)
      cs == d.cols \cup {"percentage_change"}
  IN [d EXCEPT !.cols = cs,
               !.dtypes = [c \in cs |-> IF c = "percentage_change" THEN "float" ELSE d.dtypes[c]],
               !.rows = [a \in 1..NRows(d) |->
                           [sorted[a] EXCEPT !.cells =
                              [c \in cs |-> IF c = "percentage_change"
                                            THEN group_diff(sorted, "embalse_porcentaje", 1, a)
                                            ELSE sorted[a].cells[c]]]]]

(* KeyError when embalse_porcentaje, embalse_codigo or date is absent; TypeError
   when the percentage holds text *)
ReservoirCheckFails(d) ==
  \/ ~({"embalse_porcentaje", "embalse_codigo", "date"} \subseteq d.cols)
  \/ HasText(d, "embalse_porcentaje")

check_reservoir_consistency(d) ==
  IF ReservoirCheckFails(d) THEN Raised
  ELSE LET s == reservoir_sorted(d)
       IN Checked(TRUE,
            [percentage_out_of_bounds |->
               LabelsAt(d.rows, {i \in 1..NRows(d) :
                                   PercentOutOfBounds(d.rows[i].cells["embalse_porcentaje"])}),
             extreme_percentage_changes |->
               LabelsAt(s.rows, {a \in 1..NRows(s) :
                                   IsExtremeChange(s.rows[a].cells["percentage_change"])})])

(* ---- _detect_outliers ---- *)
(* the observed values of a column, in row order (quantile skips nan) *)
RECURSIVE Values(_, _, _)
Values(d, c, i) ==
  IF i > NRows(d) THEN <<>>
  ELSE (IF d.rows[i].cells[c].k = "num" THEN <<d.rows[i].cells[c].v>> ELSE <<>>)
       \o Values(d, c, i + 1)

(* four times Series.quantile(quarters / 4) of a non-empty xs: linear
   interpolation between the two order statistics around (n - 1) * q *)
quantile(xs, quarters) ==
  LET s == Sorted(xs)
      lo == (quarters * (Len(xs) - 1)) \div 4
      f == (quarters * (Len(xs) - 1)) % 4
  IN IF f = 0 THEN 4 * s[lo + 1] ELSE (4 - f) * s[lo + 1] + f * s[lo + 2]

(* eight times the bounds Q1 - threshold * IQR and Q3 + threshold * IQR, the
   threshold given in halves (3 is 1.5) *)
OutlierBounds(xs, halves) ==
  LET Q1 == quantile(xs, 1)
      Q3 == quantile(xs, 3)
      IQR == Q3 - Q1
  IN <<2 * Q1 - halves * IQR, 2 * Q3 + halves * IQR>>

(* a slip: a value on a bound is counted *)
outlier_count_inclusive(xs, halves) ==
  IF Len(xs) = 0 THEN 0
  ELSE Cardinality({i \in 1..Len(xs) : \/ 8 * xs[i] <= OutlierBounds(xs, halves)[1]
                                       \/ 8 * xs[i] >= OutlierBounds(xs, halves)[2]})

(* ((df[col] < lower_bound) | (df[col] > upper_bound)).sum(); with no observed
   value the quantiles are nan and nothing is counted *)
outlier_count(xs, halves) ==
  IF Len(xs) = 0 THEN 0
  ELSE Cardinality({i \in 1..Len(xs) : \/ 8 * xs[i] < OutlierBounds(xs, halves)[1]
                                       \/ 8 * xs[i] > OutlierBounds(xs, halves)[2]})

(* threshold: float = 1.5, and the other multipliers a caller passes *)
DefaultThreshold == "1.5"

Thresholds == {"1.0", DefaultThreshold, "3.0"}

Halves(threshold) == CASE threshold = "1.0" -> 2 [] threshold = "1.5" -> 3 [] threshold = "3.0" -> 6

detect_outliers(d, threshold) ==
  Checked(TRUE, [c \in NumberColumns(d) |-> outlier_count(Values(d, c, 1), Halves(threshold))])

(* ---- generate_quality_report (memory_usage_mb, a measurement of the running
   process, is left out of basic_stats) ---- *)
generate_quality_report(d) ==
  LET t == check_temporal_consistency(d)
      w == validate_weather_consistency(d)
      r == check_reservoir_consistency(d)
  IN IF ~t.ok \/ ~w.ok \/ ~r.ok THEN Raised
     ELSE Checked(TRUE,
            [basic_stats |-> [total_records |-> NRows(d), total_columns |-> Cardinality(d.cols)],
             completeness |-> check_data_completeness(d).report,
             temporal_consistency |-> t.report,
             weather_inconsistencies |-> w.report,
             reservoir_inconsistencies |-> r.report,
             outliers |-> detect_outliers(d, DefaultThreshold).report])

(* ---- the caller runs a check: its dataset stays the one it holds, the report
   (nothing when the check raises) goes to diag; `local` is the frame the check
   assigned to ---- *)
Report(name, arg, res, local) ==
  /\ Len(ops) < MaxSteps
  /\ df' = df
  /\ prev' = df
  /\ ops' = Append(ops, Op(name, arg, res.ok))
  /\ diag' = res.report
  /\ passed' = ArgAfter(name, df, local)
  /\ UNCHANGED eager

(* df.sort_values('date'), rows of one date in input order *)
temporal_sorted(d) ==
  [d EXCEPT !.rows =
     [q \in 1..NRows(d) |->
        d.rows[CHOOSE i \in 1..NRows(d) :
                 q = 1 + Cardinality({j \in 1..NRows(d) :
                           \/ Dates(d)[j] < Dates(d)[i]
                           \/ (Dates(d)[j] = Dates(d)[i] /\ j < i)})]]]

CheckDataCompleteness ==
  Report("check_data_completeness", "", check_data_completeness(df), df)

CheckTemporalConsistency ==
  Report("check_temporal_consistency", "", check_temporal_consistency(df),
         IF "date" \in df.cols THEN temporal_sorted(df) ELSE df)

ValidateWeatherConsistency ==
  Report("validate_weather_consistency", "", validate_weather_consistency(df), df)

CheckReservoirConsistency ==
  Report("check_reservoir_consistency", "", check_reservoir_consistency(df),
         IF ReservoirCheckFails(df) THEN df ELSE reservoir_sorted(df))

DetectOutliers ==
  \E threshold \in Thresholds :
    Report("_detect_outliers", threshold, detect_outliers(df, threshold), df)

(* the report's checks run one after the other on the same df *)
GenerateQualityReport ==
  Report("generate_quality_report", "", generate_quality_report(df),
         LET afterTemporal == IF "date" \in df.cols
                              THEN ArgAfter("check_temporal_consistency", df, temporal_sorted(df))
                              ELSE df
         IN IF ReservoirCheckFails(afterTemporal)
               \/ ~check_temporal_consistency(df).ok \/ ~validate_weather_consistency(df).ok
            THEN afterTemporal
            ELSE ArgAfter("check_reservoir_consistency", afterTemporal,
                          reservoir_sorted(afterTemporal)))

(* ==== ExploratoryAnalyzer (src/src/analysis/exploratory.py) ==== *)

(* __init__: self.data = data.copy() *)
ExploratoryAnalyzer(data) == [data |-> data]

(* seasonal_analysis, lines 39-53: the method's own copy of self.data with the
   month and season columns added when they are not there *)
seasonal_frame(self) ==
  LET d == self.data
      cs == d.cols \cup {"month", "season"}
      monthOf(i) == IF "month" \in d.cols THEN d.rows[i].cells["month"]
                    ELSE Num(Units(dt_month(d.rows[i].cells["date"])))
  IN [d EXCEPT !.cols = cs,
               !.dtypes = [c \in cs |-> IF c \in d.cols THEN d.dtypes[c]
                                        ELSE IF c = "month" THEN "float" ELSE "object"],
               !.rows = [i \in 1..NRows(d) |->
                           [d.rows[i] EXCEPT !.cells =
                              [c \in cs |-> IF c \in d.cols THEN d.rows[i].cells[c]
                                            ELSE IF c = "month" THEN monthOf(i)
                                            ELSE season_map(monthOf(i).v \div 10000)]]]]

(* groupby(key)[variable].agg(['min', 'max', 'count']) (mean and std are left
   out): one entry per key value *)
group_stats(d, key, variable) ==
  [g \in {d.rows[i].cells[key] : i \in 1..NRows(d)} |->
     LET vs == {d.rows[i].cells[variable].v :
                  i \in {j \in 1..NRows(d) : /\ d.rows[j].cells[key] = g
                                             /\ d.rows[j].cells[variable].k = "num"}}
     IN [count |-> Cardinality({j \in 1..NRows(d) : /\ d.rows[j].cells[key] = g
                                                    /\ d.rows[j].cells[variable].k = "num"}),
         min |-> IF vs = {} THEN NaN ELSE Num(SetMin(vs)),
         max |-> IF vs = {} THEN NaN ELSE Num(SetMax(vs))]]

(* KeyError without the date column or the variable; aggregating text raises *)
seasonal_analysis(self, variable) ==
  IF "date" \notin self.data.cols \/ variable \notin self.data.cols THEN Raised
  ELSE IF HasText(self.data, variable) THEN Raised
  ELSE Checked(TRUE, [monthly |-> group_stats(seasonal_frame(self), "month", variable),
                      seasonal |-> group_stats(seasonal_frame(self), "season", variable)])

SeasonalAnalysis ==
  \E variable \in {"embalse_porcentaje", "meteo_temp_media"} :
    Report("seasonal_analysis", variable,
           seasonal_analysis(ExploratoryAnalyzer(df), variable),
           IF "date" \in df.cols THEN seasonal_frame(ExploratoryAnalyzer(df)) ELSE df)

(* ==== any sequence of Cleaner, Validator and Analyzer calls ==== *)
AnyRows ==
  {[date |-> Day(2), embalse_codigo |-> Str(1), embalse_porcentaje |-> Num(750000)],
   [date |-> Day(1), embalse_codigo |-> Str(1), embalse_porcentaje |-> NaN]}

InitAny == \E d \in Frames({"range"}, AnyRows, MaxRows) : Start(d, {FALSE})

NextAny ==
  \/ CleanNumericColumns
  \/ ValidateRanges
  \/ HandleMissingValues
  \/ AddDerivedFeatures
  \/ RemoveDuplicates
  \/ CheckDataCompleteness
  \/ CheckTemporalConsistency
  \/ ValidateWeatherConsistency
  \/ CheckReservoirConsistency
  \/ DetectOutliers
  \/ GenerateQualityReport
  \/ SeasonalAnalysis

SpecAny == InitAny /\ [][NextAny]_vars

(* C12: whatever Cleaner, Validator or Analyzer operation is called, the dataset
   object the caller passed in is afterwards what it was before the call: same
   rows in the same order, same columns, same values. *)
C12_InputNeverMutated == Len(ops) > 0 => passed = prev

(* the reservoir check has sorted its own copy and added its column there, and
   the caller's dataset still has its rows in input order and no new column *)
C12_Witness ==
  /\ Did("check_reservoir_consistency")
  /\ NRows(passed) >= 2
  /\ passed.rows[1].cells["date"] = Day(2)
  /\ passed.rows[2].cells["date"] = Day(1)
  /\ passed.rows[2].cells["embalse_codigo"] = Str(1)
  /\ "percentage_change" \notin passed.cols

(* ==== datasets shaped like the Validator fixture of the tests: date, storage
   percentage and the temperature triad; `extra` adds the entity code, `absent`
   takes columns away ==== *)
ValidatorColumns ==
  {"date", "embalse_porcentaje", "meteo_temp_max", "meteo_temp_min", "meteo_temp_media"}

ValidatorRows(extra, absent) ==
  {[c \in (ValidatorColumns \cup extra) \ absent |->
      CASE c = "date" -> Day(t)
        [] c = "embalse_porcentaje" -> p
        [] c = "meteo_temp_max" -> Num(300000)
        [] c = "meteo_temp_min" -> lo
        [] c = "meteo_temp_media" -> Num(250000)
        [] OTHER -> Str(1)] :
     t \in {1, 2}, p \in {Num(500000), Num(1200000)}, lo \in {Num(200000), Num(350000)}}

InitAbsent ==
  \E extra \in SUBSET {"embalse_codigo"} :
    \E absent \in SUBSET {"embalse_porcentaje", "meteo_temp_media"} :
      \E d \in Frames({"range"}, ValidatorRows(extra, absent), MaxRows) : Start(d, {FALSE})

NextAbsent == CheckReservoirConsistency \/ ValidateWeatherConsistency \/ GenerateQualityReport

SpecAbsent == InitAbsent /\ [][NextAbsent]_vars

(* C13: check_reservoir_consistency, validate_weather_consistency and
   generate_quality_report do not fail on a dataset that lacks the storage
   percentage, the entity code or a triad column: they return a result. *)
C13_DegradesGracefully ==
  (/\ Len(ops) > 0
   /\ Last.name \in {"check_reservoir_consistency", "validate_weather_consistency",
                     "generate_quality_report"}
   /\ "date" \in prev.cols)
  => Last.ok

(* ==== completeness of datasets with gaps, before and after the gaps are handled ==== *)
NextComplete == HandleMissingValues \/ CheckDataCompleteness

SpecComplete == InitDrop /\ [][NextComplete]_vars

IsHundred(f) == f.den > 0 /\ f.num = 100 * f.den

MissingIn(d, c) == Cardinality({i \in 1..NRows(d) : d.rows[i].cells[c].k = "nan"})

(* C14: check_data_completeness returns one entry per column; for a column with
   k missing values among n rows the entry is (n - k) / n x 100, and it is 100.0
   exactly when the column has no missing value. *)
C14_Completeness ==
  Did("check_data_completeness") =>
    /\ DOMAIN diag = df.cols
    /\ \A c \in df.cols :
         /\ diag[c].den > 0
         /\ diag[c].num * NRows(df) = (NRows(df) - MissingIn(df, c)) * 100 * diag[c].den
         /\ IsHundred(diag[c]) <=> (MissingIn(df, c) = 0)

(* ==== datasets with irregular, repeated and unordered dates ==== *)
TemporalRows ==
  {[date |-> Day(t), embalse_codigo |-> Str(e), embalse_porcentaje |-> Num(500000)] :
     t \in {1, 2, 4, 9}, e \in {1, 2}}

InitTemporal == \E d \in Frames({"range"}, TemporalRows, MaxRows) : Start(d, {FALSE})

SpecTemporal == InitTemporal /\ [][CheckTemporalConsistency]_vars

DateSet(d) == {d.rows[i].cells["date"].v : i \in 1..NRows(d)}

(* the position of row i when the rows are put in date order *)
DateRank(d, i) ==
  1 + Cardinality({j \in 1..NRows(d) :
        \/ d.rows[j].cells["date"].v < d.rows[i].cells["date"].v
        \/ (d.rows[j].cells["date"].v = d.rows[i].cells["date"].v /\ j < i)})

(* the rows that have a next row in date order, and the days to that row *)
GapRows(d) == {i \in 1..NRows(d) : DateRank(d, i) < NRows(d)}

GapAfter(d, i) ==
  LET j == CHOOSE r \in 1..NRows(d) : DateRank(d, r) = DateRank(d, i) + 1
  IN d.rows[j].cells["date"].v - d.rows[i].cells["date"].v

(* the gap at place k (from 0) when the gaps are counted up from the smallest *)
GapAtPlace(d, k) ==
  CHOOSE g \in {GapAfter(d, i) : i \in GapRows(d)} :
    /\ Cardinality({i \in GapRows(d) : GapAfter(d, i) < g}) <= k
    /\ k < Cardinality({i \in GapRows(d) : GapAfter(d, i) <= g})

(* C15: check_temporal_consistency reports the (min, max) date span, total_days
   as the inclusive day count from min to max date, unique_dates as the number of
   distinct dates, duplicate_dates = rows - unique dates, and the median and the
   maximum gap in days between consecutive dates after sorting by date. *)
C15_TemporalReport ==
  (Did("check_temporal_consistency") /\ NRows(df) > 0) =>
    LET n == NRows(df)
        m == Cardinality(GapRows(df))
    IN /\ diag.date_range = <<Day(SetMin(DateSet(df))), Day(SetMax(DateSet(df)))>>
       /\ diag.total_days = Num(Units(SetMax(DateSet(df)) - SetMin(DateSet(df)) + 1))
       /\ diag.unique_dates = Cardinality(DateSet(df))
       /\ diag.duplicate_dates = n - Cardinality(DateSet(df))
       /\ m > 0 =>
            /\ diag.max_gap_days = Num(Units(GapAtPlace(df, m - 1)))
            /\ 2 * diag.median_gap_days.v =
                 Units(GapAtPlace(df, (m - 1) \div 2) + GapAtPlace(df, m \div 2))

(* ==== datasets with a temperature triad and a wind pair, some values missing,
   some columns absent ==== *)
WeatherRows(absent) ==
  {[c \in {"date", "meteo_temp_min", "meteo_temp_media", "meteo_temp_max",
           "meteo_vel_viento", "meteo_vel_viento_max"} \ absent |->
      CASE c = "date" -> Day(1)
        [] c = "meteo_temp_min" -> lo
        [] c = "meteo_temp_media" -> mid
        [] c = "meteo_temp_max" -> Num(300000)
        [] c = "meteo_vel_viento" -> speed
        [] OTHER -> Num(100000)] :
     lo \in {NaN, Num(200000), Num(350000)}, mid \in {Num(250000), Num(310000)},
     speed \in {Num(50000), Num(120000)}}

InitWeather ==
  \E absent \in SUBSET {"meteo_temp_media", "meteo_vel_viento_max"} :
    \E d \in Frames({"range"}, WeatherRows(absent), MaxRows) : Start(d, {FALSE})

SpecWeather == InitWeather /\ [][ValidateWeatherConsistency]_vars

(* x > y for two observed numbers *)
Exceeds(x, y) == x.k = "num" /\ y.k = "num" /\ x.v > y.v

(* the list holds each label of L once and nothing else *)
ListsExactly(list, L) ==
  /\ {list[i] : i \in 1..Len(list)} = L
  /\ Len(list) = Cardinality(L)

(* C16: validate_weather_consistency has an entry for a rule exactly when the
   rule's columns are all present, and the entry lists exactly the rows that break
   the rule: min > mean or mean > max for temperature and humidity, mean speed >
   max speed for wind. *)
C16_WeatherOrderRules ==
  Did("validate_weather_consistency") =>
    LET triad(name, lo, mid, hi) ==
          IF {lo, mid, hi} \subseteq df.cols
          THEN /\ name \in DOMAIN diag
               /\ ListsExactly(diag[name],
                    {df.rows[i].label : i \in {j \in 1..NRows(df) :
                        \/ Exceeds(df.rows[j].cells[lo], df.rows[j].cells[mid])
                        \/ Exceeds(df.rows[j].cells[mid], df.rows[j].cells[hi])}})
          ELSE name \notin DOMAIN diag
    IN /\ triad("temperature_order", "meteo_temp_min", "meteo_temp_media", "meteo_temp_max")
       /\ triad("humidity_order", "meteo_humedad_min", "meteo_humedad_media", "meteo_humedad_max")
       /\ IF {"meteo_vel_viento", "meteo_vel_viento_max"} \subseteq df.cols
          THEN /\ "wind_speed_order" \in DOMAIN diag
               /\ ListsExactly(diag["wind_speed_order"],
                    {df.rows[i].label : i \in {j \in 1..NRows(df) :
                        Exceeds(df.rows[j].cells["meteo_vel_viento"],
                                df.rows[j].cells["meteo_vel_viento_max"])}})
          ELSE "wind_speed_order" \notin DOMAIN diag

(* three rows: min 20 <= mean 25 <= max 30 is not listed, mean 31 > max 30 is
   listed, as is min 35 > mean 25; the wind columns are absent and have no entry *)
C16_Witness ==
  /\ Did("validate_weather_consistency")
  /\ NRows(df) = 3
  /\ "meteo_vel_viento_max" \notin df.cols
  /\ df.rows[1].cells["meteo_temp_min"] = Num(200000)
  /\ df.rows[1].cells["meteo_temp_media"] = Num(250000)
  /\ df.rows[2].cells["meteo_temp_min"] = Num(200000)
  /\ df.rows[2].cells["meteo_temp_media"] = Num(310000)
  /\ df.rows[3].cells["meteo_temp_min"] = Num(350000)
  /\ df.rows[3].cells["meteo_temp_media"] = Num(250000)
  /\ diag["temperature_order"] = <<1, 2>>
  /\ DOMAIN diag = {"temperature_order"}

(* C17: on every dataset with a date and a storage-percentage column,
   check_reservoir_consistency returns under percentage_out_of_bounds exactly the
   identifiers of the rows whose storage percentage is below 0 or above 100. *)
C17_PercentageBounds ==
  (/\ Len(ops) > 0
   /\ Last.name = "check_reservoir_consistency"
   /\ {"date", "embalse_porcentaje"} \subseteq prev.cols)
  => /\ Last.ok
     /\ ListsExactly(diag.percentage_out_of_bounds,
          {df.rows[i].label : i \in {j \in 1..NRows(df) :
              /\ df.rows[j].cells["embalse_porcentaje"].k = "num"
              /\ \/ df.rows[j].cells["embalse_porcentaje"].v < 0
                 \/ df.rows[j].cells["embalse_porcentaje"].v > 100 * 10000}})

(* ==== datasets of two entities with jumps of 20 and of 20.1 points ==== *)
JumpRows ==
  {[date |-> Day(t), embalse_codigo |-> Str(1), embalse_porcentaje |-> p] :
     t \in {1, 2}, p \in {NaN, Num(500000), Num(700000), Num(701000)}}
  \cup {[date |-> Day(t), embalse_codigo |-> Str(2), embalse_porcentaje |-> Num(500000)] :
          t \in {1, 2}}

InitJumps == \E d \in Frames({"range"}, JumpRows, MaxRows) : Start(d, {FALSE})

SpecJumps == InitJumps /\ [][CheckReservoirConsistency]_vars

(* C18: check_reservoir_consistency lists a row under extreme_percentage_changes
   exactly when its storage percentage differs by more than 20 from that of the
   same entity's chronologically preceding row: a change of exactly 20, an
   entity's first row and a jump from one entity to the next are not listed; the
   dataset keeps all its rows. *)
C18_ExtremeChanges ==
  Did("check_reservoir_consistency") =>
    /\ ListsExactly(diag.extreme_percentage_changes,
         {df.rows[i].label : i \in {j \in 1..NRows(df) :
             /\ ExpectedChange(df.rows, j, 1).k = "num"
             /\ Abs(ExpectedChange(df.rows, j, 1).v) > 20 * 10000}})
    /\ df = prev
    /\ passed = prev

(* entity 1 goes from 50 to 70.1 and its second row is listed; entity 2 starts
   at 50, 20.1 below the row before it in the sorted order, and is not listed *)
C18_Witness ==
  /\ Did("check_reservoir_consistency")
  /\ NRows(df) = 3
  /\ df.rows[1].cells = [date |-> Day(1), embalse_codigo |-> Str(1), embalse_porcentaje |-> Num(500000)]
  /\ df.rows[2].cells = [date |-> Day(2), embalse_codigo |-> Str(1), embalse_porcentaje |-> Num(701000)]
  /\ df.rows[3].cells = [date |-> Day(1), embalse_codigo |-> Str(2), embalse_porcentaje |-> Num(500000)]
  /\ diag.extreme_percentage_changes = <<1>>

(* ==== datasets with one numeric column of up to MaxValues values, in ascending
   or descending order, next to a date and a text column ==== *)
OutlierValues ==
  <<NaN, Num(10000), Num(20000), Num(30000), Num(40000), Num(70000), Num(1000000)>>

OutlierFrames(maxValues) ==
  {MkFrame("range",
     [i \in 1..n |->
        [date |-> Day(i), embalse_codigo |-> Str(1),
         embalse_porcentaje |-> OutlierValues[IF up THEN f[i] ELSE f[n + 1 - i]]]]) :
     <<n, f, up>> \in
       UNION {{<<n, f, up>> : f \in {g \in [1..n -> 1..Len(OutlierValues)] :
                                        \A i \in 1..(n - 1) : g[i] <= g[i + 1]},
                              up \in BOOLEAN} : n \in 1..maxValues}}

InitOutliers == \E d \in OutlierFrames(MaxValues) : Start(d, {FALSE})

SpecOutliers == InitOutliers /\ [][DetectOutliers]_vars

(* the observed values of a column as a set of (row, value) *)
Observations(d, c) == {i \in 1..NRows(d) : d.rows[i].cells[c].k = "num"}

(* the value at place k (from 0) when the observations are counted up from the
   smallest *)
ValueAtPlace(d, c, k) ==
  CHOOSE x \in {d.rows[i].cells[c].v : i \in Observations(d, c)} :
    /\ Cardinality({i \in Observations(d, c) : d.rows[i].cells[c].v < x}) <= k
    /\ k < Cardinality({i \in Observations(d, c) : d.rows[i].cells[c].v <= x})

(* four times the quartile (quarters = 1 or 3): the observation at place
   (n - 1) * quarters / 4, interpolated linearly to the next one *)
Quartile4(d, c, quarters) ==
  LET place == quarters * (Cardinality(Observations(d, c)) - 1)
  IN IF place % 4 = 0 THEN 4 * ValueAtPlace(d, c, place \div 4)
     ELSE (4 - (place % 4)) * ValueAtPlace(d, c, place \div 4)
          + (place % 4) * ValueAtPlace(d, c, (place \div 4) + 1)

(* C19: _detect_outliers returns, for every numeric column, the number of values
   strictly below Q1 - k * IQR or strictly above Q3 + k * IQR, with IQR = Q3 - Q1
   and k = 1.5 by default; a value on a bound is not counted, and for
   1, 2, 3, 4, 100 the bounds are -1 and 7 and the count is 1. *)
C19_OutlierCount ==
  Did("_detect_outliers") =>
    /\ DOMAIN diag = {c \in df.cols : df.dtypes[c] = "float"}
    /\ \A c \in DOMAIN diag :
         LET k2 == CASE Last.arg = "1.0" -> 2 [] Last.arg = "1.5" -> 3 [] Last.arg = "3.0" -> 6
             Q1 == Quartile4(df, c, 1)
             Q3 == Quartile4(df, c, 3)
             low8 == 2 * Q1 - k2 * (Q3 - Q1)
             high8 == 2 * Q3 + k2 * (Q3 - Q1)
         IN /\ Observations(df, c) = {} => diag[c] = 0
            /\ Observations(df, c) # {} =>
                 diag[c] = Cardinality({i \in Observations(df, c) :
                                          \/ 8 * df.rows[i].cells[c].v < low8
                                          \/ 8 * df.rows[i].cells[c].v > high8})
            /\ (/\ Last.arg = "1.5"
                /\ NRows(df) = 5
                /\ {df.rows[i].cells[c] : i \in 1..5} =
                     {Num(10000), Num(20000), Num(30000), Num(40000), Num(1000000)})
               => /\ low8 = 8 * (-10000)
                  /\ high8 = 8 * 70000
                  /\ diag[c] = 1

(* 1, 2, 3, 4, 7 with the default multiplier: 7 lies on the upper bound and is
   not counted *)
C19_Witness ==
  /\ DidArg("_detect_outliers", "1.5")
  /\ NRows(df) = 5
  /\ [i \in 1..5 |-> df.rows[i].cells["embalse_porcentaje"]] =
       <<Num(70000), Num(40000), Num(30000), Num(20000), Num(10000)>>
  /\ diag["embalse_porcentaje"] = 0

(* ==== end to end: three entities with one record a day over the same YearDays
   days; row `hot` has a storage percentage of 120, row `inverted` a minimum
   temperature above the mean, and row `repeated` is in the dataset twice ==== *)
Entities == {1, 2, 3}

YearRow(e, t, hot, inverted) ==
  [date |-> Day(t),
   embalse_codigo |-> Str(e),
   embalse_porcentaje |-> IF hot THEN Num(1200000) ELSE Num(500000 + 10000 * t),
   meteo_temp_min |-> IF inverted THEN Num(350000) ELSE Num(200000),
   meteo_temp_media |-> Num(250000),
   meteo_temp_max |-> Num(300000)]

YearFrame(days, hot, inverted, repeated) ==
  LET n == Cardinality(Entities) * days
      entity(i) == ((i - 1) \div days) + 1
      day(i) == ((i - 1) % days) + 1
      row(i) == YearRow(entity(i), day(i), i = hot, i = inverted)
  IN MkFrame("range", [i \in 1..(n + 1) |-> IF i <= n THEN row(i) ELSE row(repeated)])

InitYear ==
  \E hot, inverted, repeated \in 1..(Cardinality(Entities) * YearDays) :
    Start(YearFrame(YearDays, hot, inverted, repeated), {FALSE})

NextYear == RemoveDuplicates \/ GenerateQualityReport

SpecYear == InitYear /\ [][NextYear]_vars

(* C20: the quality report of the dataset cleaned by remove_duplicates lists
   exactly one percentage-bound violation and exactly one temperature-order
   violation and reports zero duplicate rows (duplicate_dates = 0). *)
C20_EndToEndReport ==
  (/\ Len(ops) = 2
   /\ ops[1].name = "remove_duplicates"
   /\ ops[2].name = "generate_quality_report")
  => /\ ops[2].ok
     /\ Len(diag.reservoir_inconsistencies.percentage_out_of_bounds) = 1
     /\ Len(diag.weather_inconsistencies["temperature_order"]) = 1
     /\ diag.temporal_consistency.duplicate_dates = 0

(* ==== trend_analysis (src/src/analysis/exploratory.py, lines 71-135) ==== *)

(* the variable the caller asks about *)
TrendVariable == "embalse_porcentaje"

(* the methods the docstring names ('polynomial' has no branch) and a name it
   does not know *)
Methods == {"linear", "polynomial", "mann_kendall", "other"}

(* the orders sort_values('date') (quicksort, not stable) can return: `tie`
   gives each row its place, rows of one date in any order *)
TieOrders(d) ==
  {t \in Permutations(1..NRows(d)) :
     \A i, j \in 1..NRows(d) : Dates(d)[i] < Dates(d)[j] => t[i] < t[j]}

(* the order a stable sort returns (numpy's sort of a short array is one) *)
StableOrder(d) ==
  [i \in 1..NRows(d) |->
     1 + Cardinality({j \in 1..NRows(d) :
           \/ Dates(d)[j] < Dates(d)[i]
           \/ (Dates(d)[j] = Dates(d)[i] /\ j < i)})]

(* df.sort_values('date'), line 83 *)
sort_by_date(d, tie) ==
  [d EXCEPT !.rows =
     [q \in 1..NRows(d) |->
        d.rows[CHOOSE i \in 1..NRows(d) :
                 q = 1 + Cardinality({j \in 1..NRows(d) :
                           \/ Dates(d)[j] < Dates(d)[i]
                           \/ (Dates(d)[j] = Dates(d)[i] /\ tie[j] < tie[i])})]]]

(* df['time_index'] = (df['date'] - df['date'].min()).dt.days, line 86 *)
time_index(d) ==
  [i \in 1..NRows(d) |-> Dates(d)[i] - SetMin({Dates(d)[j] : j \in 1..NRows(d)})]

(* df[variable].dropna(): the cells that are not missing, in row order *)
RECURSIVE series_dropna(_, _, _)
series_dropna(d, c, i) ==
  IF i > NRows(d) THEN <<>>
  ELSE (IF isna(d.rows[i].cells[c]) THEN <<>> ELSE <<d.rows[i].cells[c]>>)
       \o series_dropna(d, c, i + 1)

(* a slip: the differences themselves are added up *)
np_sign_magnitude(x) == x \div 10000

np_sign(x) == IF x > 0 THEN 1 ELSE IF x < 0 THEN -1 ELSE 0

(* lines 111-114: for i in range(n-1): for j in range(i+1, n):
   S += np.sign(values[j] - values[i]) *)
RECURSIVE mann_kendall_S(_, _, _)
mann_kendall_S(values, i, j) ==
  IF i >= Len(values) THEN 0
  ELSE IF j > Len(values) THEN mann_kendall_S(values, i + 1, i + 2)
  ELSE np_sign(values[j].v - values[i].v) + mann_kendall_S(values, i, j + 1)

(* z = num / sqrt(var_s), lines 120-123 *)
ZRatio(num, var_s) == [k |-> "ratio", num |-> num, var_s |-> var_s]

(* lines 107-133; p_value (the normal distribution function of z) is left out.
   Subtracting text raises, which takes two values. *)
mann_kendall(d, variable) ==
  LET values == series_dropna(d, variable, 1)
      n == Len(values)
      S == mann_kendall_S(values, 1, 2)
      var_s == Fraction(n * (n - 1) * (2 * n + 5), 18)
  IN IF n >= 2 /\ \E i \in 1..n : IsText(values[i]) THEN Raised
     ELSE Checked(TRUE,
            [S_statistic |-> S,
             Z_statistic |-> IF S > 0 THEN ZRatio(S - 1, var_s)
                             ELSE IF S < 0 THEN ZRatio(S + 1, var_s)
                             ELSE Num(0),
             trend |-> IF S > 0 THEN "increasing"
                       ELSE IF S < 0 THEN "decreasing" ELSE "no trend"])

RECURSIVE SeqSum(_)
SeqSum(xs) == IF xs = <<>> THEN 0 ELSE Head(xs) + SeqSum(Tail(xs))

(* the values are taken in hundredths, which the cleaned dataset is rounded to *)
Hundredths(cell) == cell.v \div 100

(* scipy.stats.linregress(x, y): an empty input raises, and so do inputs of
   different lengths (np.cov) and text; when all x are equal the slope is 0/0
   and the newer releases (`strict`) raise for more than one point, the older
   ones return nan. slope = ssxym / ssxm, intercept = ymean - slope * xmean;
   r_value, p_value and std_err (square roots, the t distribution) are left
   out. Sums are taken n-fold to stay in the integers. *)
linregress(x, y, strict) ==
  LET n == Len(x)
      Sx == SeqSum(x)
      Sy == SeqSum([i \in 1..n |-> Hundredths(y[i])])
      Sxx == n * SeqSum([i \in 1..n |-> x[i] * x[i]]) - Sx * Sx
      Sxy == n * SeqSum([i \in 1..n |-> x[i] * Hundredths(y[i])]) - Sx * Sy
  IN IF Len(x) = 0 \/ Len(y) = 0 THEN Raised
     ELSE IF strict /\ n > 1 /\ \A i \in 1..n : x[i] = x[1] THEN Raised
     ELSE IF Len(y) # n THEN Raised
     ELSE IF \E i \in 1..n : IsText(y[i]) THEN Raised
     ELSE Checked(TRUE,
            [slope |-> Fraction(Sxy, Sxx),
             intercept |-> Fraction(Sy * Sxx - Sxy * Sx, n * Sxx)])

(* lines 92-103: x is the time index of every row, y the values that are not
   missing; annual_change = slope * 365.25 *)
linear_trend(d, variable, strict) ==
  LET x == time_index(d)
      y == series_dropna(d, variable, 1)
      fit == linregress(x, y, strict)
  IN IF ~fit.ok THEN Raised
     ELSE Checked(TRUE,
            [slope |-> fit.report.slope,
             intercept |-> fit.report.intercept,
             annual_change |-> Fraction(fit.report.slope.num * 1461,
                                        fit.report.slope.den * 4)])

(* the sorted copy of self.data, lines 82-83 *)
trend_frame(self, tie) == sort_by_date(self.data, tie)

(* KeyError without the date column, and without the variable in the two
   branches that read it; any other method falls through both branches and the
   empty dictionary is returned (line 135) *)
trend_analysis(self, variable, method, env) ==
  IF "date" \notin self.data.cols THEN Raised
  ELSE CASE method = "linear" ->
              IF variable \notin self.data.cols THEN Raised
              ELSE linear_trend(trend_frame(self, env.tie), variable, env.strict)
         [] method = "mann_kendall" ->
              IF variable \notin self.data.cols THEN Raised
              ELSE mann_kendall(trend_frame(self, env.tie), variable)
         [] OTHER -> Checked(TRUE, <<>>)

TrendEnvs(d) == {[tie |-> t, strict |-> s] : t \in TieOrders(d), s \in BOOLEAN}

TrendAnalysis ==
  \E method \in Methods, env \in TrendEnvs(df) :
    Report("trend_analysis", method,
           trend_analysis(ExploratoryAnalyzer(df), TrendVariable, method, env),
           IF "date" \in df.cols THEN trend_frame(ExploratoryAnalyzer(df), env.tie) ELSE df)

(* ---- datasets for the trend: rows of two entities, two of them on one date,
   with a value that may be missing; one entity's series on consecutive days;
   and the dataset without rows ---- *)
TrendRows ==
  {[date |-> Day(1), embalse_codigo |-> Str(1), embalse_porcentaje |-> Num(Units(2))],
   [date |-> Day(1), embalse_codigo |-> Str(2), embalse_porcentaje |-> Num(Units(1))],
   [date |-> Day(2), embalse_codigo |-> Str(1), embalse_porcentaje |-> NaN],
   [date |-> Day(2), embalse_codigo |-> Str(2), embalse_porcentaje |-> Num(Units(3))]}

TrendShapes == {"rising", "falling", "flat", "zigzag"}

TrendSeries(maxValues) ==
  {MkFrame("range",
     [i \in 1..n |->
        [date |-> Day(i), embalse_codigo |-> Str(1),
         embalse_porcentaje |->
           Num(Units(CASE shape = "rising" -> i
                       [] shape = "falling" -> n + 1 - i
                       [] shape = "flat" -> 3
                       [] OTHER -> IF i % 2 = 1 THEN i ELSE n + 1 - i))]]) :
     <<n, shape>> \in UNION {{<<n, shape>> : shape \in TrendShapes} : n \in 1..maxValues}}

EmptyFrame ==
  [index |-> "range",
   cols |-> {"date", "embalse_codigo", "embalse_porcentaje"},
   dtypes |-> [c \in {"date", "embalse_codigo", "embalse_porcentaje"} |->
                 CASE c = "date" -> "datetime"
                   [] c = "embalse_codigo" -> "object"
                   [] OTHER -> "float"],
   rows |-> <<>>]

TrendFrames ==
  Frames({"range"}, TrendRows, MaxRows) \cup TrendSeries(MaxValues) \cup {EmptyFrame}

InitTrend == \E d \in TrendFrames : Start(d, {FALSE})

SpecTrend == InitTrend /\ [][TrendAnalysis]_vars

(* ---- C21 ---- *)
(* row i comes before row j in a date order of d that leaves the rows of one
   date as `tie` ranks them *)
ComesBefore(d, tie, i, j) ==
  \/ d.rows[i].cells["date"].v < d.rows[j].cells["date"].v
  \/ (d.rows[i].cells["date"].v = d.rows[j].cells["date"].v /\ tie[i] < tie[j])

(* pairs of observed rows, the earlier first, whose values rise / fall *)
RisingPairs(d, c, tie) ==
  {p \in Observed(d, c) \X Observed(d, c) :
     ComesBefore(d, tie, p[1], p[2]) /\ d.rows[p[2]].cells[c].v > d.rows[p[1]].cells[c].v}

FallingPairs(d, c, tie) ==
  {p \in Observed(d, c) \X Observed(d, c) :
     ComesBefore(d, tie, p[1], p[2]) /\ d.rows[p[2]].cells[c].v < d.rows[p[1]].cells[c].v}

LastIs(name, arg) == Len(ops) > 0 /\ Last.name = name /\ Last.arg = arg

(* C21: trend_analysis with method mann_kendall does not fail on a numeric
   variable, whatever the number of available values; for a date order of the
   rows, S is the number of pairs of available values that rise minus the
   number that fall; the Z numerator is S - 1 when S > 0 and S + 1 when S < 0
   over the variance n(n-1)(2n+5)/18, and Z is 0 when S = 0 (as for fewer than
   two values); the label is increasing, decreasing or no trend by the sign of
   S; and 1, 2, 3, 4, 5 gives S = 10, increasing. *)
C21_MannKendall ==
  LastIs("trend_analysis", "mann_kendall") =>
    LET n == Cardinality(Observed(df, TrendVariable))
        S == diag.S_statistic
    IN /\ Last.ok
       /\ \E tie \in TieOrders(df) :
            S = Cardinality(RisingPairs(df, TrendVariable, tie))
                  - Cardinality(FallingPairs(df, TrendVariable, tie))
       /\ IF S = 0 THEN diag.Z_statistic.k = "num" /\ diag.Z_statistic.v = 0
          ELSE /\ diag.Z_statistic.k = "ratio"
               /\ diag.Z_statistic.num = (IF S > 0 THEN S - 1 ELSE S + 1)
               /\ diag.Z_statistic.var_s = Fraction(n * (n - 1) * (2 * n + 5), 18)
       /\ diag.trend = (IF S > 0 THEN "increasing"
                        ELSE IF S < 0 THEN "decreasing" ELSE "no trend")
       /\ (n <= 1 => S = 0)
       /\ (/\ NRows(df) = 5
           /\ \A i \in 1..5 : /\ df.rows[i].cells["date"].v = i
                              /\ df.rows[i].cells[TrendVariable] = Num(Units(i)))
          => S = 10 /\ diag.trend = "increasing"

C21_Witness ==
  /\ DidArg("trend_analysis", "mann_kendall")
  /\ NRows(df) = 5
  /\ diag.S_statistic = 10
  /\ diag.Z_statistic.num = 9
  /\ diag.trend = "increasing"

(* ---- C22 ---- *)
(* the rows from i on that have a value, each as (elapsed days since the
   dataset's earliest date, value) *)
RECURSIVE AvailablePoints(_, _, _)
AvailablePoints(d, c, i) ==
  IF i > NRows(d) THEN <<>>
  ELSE (IF isna(d.rows[i].cells[c]) THEN <<>>
        ELSE <<[x |-> d.rows[i].cells["date"].v
                        - SetMin({d.rows[j].cells["date"].v : j \in 1..NRows(d)}),
                y |-> d.rows[i].cells[c]]>>)
       \o AvailablePoints(d, c, i + 1)

(* the least-squares line through the available points *)
AvailableFit(d, c) ==
  LET pts == AvailablePoints(d, c, 1)
  IN linregress([i \in 1..Len(pts) |-> pts[i].x], [i \in 1..Len(pts) |-> pts[i].y], FALSE)

(* the available values lie on at least two dates *)
Regressable(d, c) ==
  \E i, j \in Observed(d, c) : d.rows[i].cells["date"].v # d.rows[j].cells["date"].v

(* C22: trend_analysis with method linear, on a dataset whose available values
   lie on at least two dates and whether or not the variable is missing in
   some rows, returns the slope and intercept of the regression of the
   available values, each against its own row's elapsed days since the
   earliest date, and annual_change = slope x 365.25. *)
C22_LinearOnAvailableValues ==
  (LastIs("trend_analysis", "linear") /\ Regressable(df, TrendVariable)) =>
    /\ Last.ok
    /\ diag.slope = AvailableFit(df, TrendVariable).report.slope
    /\ diag.intercept = AvailableFit(df, TrendVariable).report.intercept
    /\ diag.annual_change = Fraction(diag.slope.num * 1461, diag.slope.den * 4)

(* ---- C25 ---- *)
(* the same rows loaded in another order *)
Permuted(d, p) ==
  [d EXCEPT !.rows = [q \in 1..NRows(d) |->
                        [label |-> IF d.index = "time" THEN d.rows[p[q]].label ELSE q - 1,
                         cells |-> d.rows[p[q]].cells]]]

StableRun(d) == [tie |-> StableOrder(d), strict |-> TRUE]

MannKendallOf(d) ==
  trend_analysis(ExploratoryAnalyzer(d), TrendVariable, "mann_kendall", StableRun(d))

(* C25: the Mann-Kendall result depends only on the set of rows: whenever
   trend_analysis(method mann_kendall) has returned (its sort keeping the rows
   of one date in input order), the call on any permutation of the same rows,
   rows of several entities on one date included, returns the same S statistic
   and the same trend label. *)
C25_MannKendallOrderIndependent ==
  (DidArg("trend_analysis", "mann_kendall") /\ diag = MannKendallOf(df).report) =>
    \A p \in Permutations(1..NRows(df)) :
      /\ MannKendallOf(Permuted(df, p)).ok
      /\ MannKendallOf(Permuted(df, p)).report.S_statistic = diag.S_statistic
      /\ MannKendallOf(Permuted(df, p)).report.trend = diag.trend

(* ==== extreme_events_analysis (src/src/analysis/exploratory.py, lines 166-200) ==== *)

(* threshold_percentile: float = 95, and other percentiles a caller passes *)
DefaultPercentile == "95"

Percentiles == {"50", "90", DefaultPercentile, "100"}

Percent(percentile) ==
  CASE percentile = "50" -> 50 [] percentile = "90" -> 90
    [] percentile = "95" -> 95 [] percentile = "100" -> 100

(* a hundred times Series.quantile(percent / 100) of a non-empty xs: linear
   interpolation between the two order statistics around (n - 1) * q *)
quantile_percent(xs, percent) ==
  LET s == Sorted(xs)
      lo == (percent * (Len(xs) - 1)) \div 100
      f == (percent * (Len(xs) - 1)) % 100
  IN IF f = 0 THEN 100 * s[lo + 1] ELSE (100 - f) * s[lo + 1] + f * s[lo + 2]

(* a slip: a value on the threshold is an event *)
is_extreme_inclusive(cell, threshold) ==
  cell.k = "num" /\ threshold.k = "num" /\ 100 * cell.v >= threshold.v

(* df[variable] > threshold (the threshold a hundred-fold); a comparison with
   nan on either side is False *)
is_extreme(cell, threshold) ==
  cell.k = "num" /\ threshold.k = "num" /\ 100 * cell.v > threshold.v

(* df[df[variable] > threshold]: the rows from i on *)
RECURSIVE extreme_events(_, _, _, _)
extreme_events(d, variable, threshold, i) ==
  IF i > NRows(d) THEN <<>>
  ELSE (IF is_extreme(d.rows[i].cells[variable], threshold) THEN <<d.rows[i]>> ELSE <<>>)
       \o extreme_events(d, variable, threshold, i + 1)

(* groupby(...).size(): the number of rows for each value that occurs *)
group_size(keys) ==
  [g \in {keys[i] : i \in 1..Len(keys)} |-> Cardinality({i \in 1..Len(keys) : keys[i] = g})]

(* KeyError without the variable or the date column; the quantile of text
   raises; len(extreme_events) / len(df) is a division by zero on a dataset
   without rows. With no value to take the quantile of the threshold is nan.
   extreme_mean and extreme_std are left out. *)
extreme_events_analysis(self, variable, percentile) ==
  LET d == self.data
      xs == Values(d, variable, 1)
      threshold == IF Len(xs) = 0 THEN NaN ELSE Num(quantile_percent(xs, Percent(percentile)))
      events == extreme_events(d, variable, threshold, 1)
      basic == [threshold |-> threshold,
                num_extreme_events |-> Len(events),
                extreme_percentage |-> Fraction(Len(events) * 100, NRows(d)),
                extreme_events_data |-> events,
                monthly_extreme_counts |->
                  group_size([i \in 1..Len(events) |-> dt_month(events[i].cells["date"])]),
                yearly_extreme_counts |->
                  group_size([i \in 1..Len(events) |-> dt_year(events[i].cells["date"])])]
  IN IF variable \notin d.cols \/ "date" \notin d.cols THEN Raised
     ELSE IF HasText(d, variable) THEN Raised
     ELSE IF NRows(d) = 0 THEN Raised
     ELSE IF Len(events) = 0 THEN Checked(TRUE, basic)
     ELSE Checked(TRUE,
            [f \in DOMAIN basic \cup {"extreme_max"} |->
               IF f = "extreme_max"
               THEN Num(SetMax({events[i].cells[variable].v : i \in 1..Len(events)}))
               ELSE basic[f]])

ExtremeEventsAnalysis ==
  \E percentile \in Percentiles :
    Report("extreme_events_analysis", percentile,
           extreme_events_analysis(ExploratoryAnalyzer(df), TrendVariable, percentile), df)

InitExtreme ==
  \E d \in OutlierFrames(MaxValues) \cup {EmptyFrame} : Start(d, {FALSE})

SpecExtreme == InitExtreme /\ [][ExtremeEventsAnalysis]_vars

(* ---- C23 ---- *)
(* a hundred times the percentile of the observed values: the observation at
   place (n - 1) * percent / 100, interpolated linearly to the next one *)
Percentile100(d, c, percent) ==
  LET place == percent * (Cardinality(Observations(d, c)) - 1)
  IN IF place % 100 = 0 THEN 100 * ValueAtPlace(d, c, place \div 100)
     ELSE (100 - (place % 100)) * ValueAtPlace(d, c, place \div 100)
          + (place % 100) * ValueAtPlace(d, c, (place \div 100) + 1)

EventLabels(report) ==
  {report.extreme_events_data[i].label : i \in 1..Len(report.extreme_events_data)}

EventsAt(d, percentile) ==
  extreme_events_analysis(ExploratoryAnalyzer(d), TrendVariable, percentile).report

(* C23: extreme_events_analysis reports as events exactly the rows whose value
   is strictly greater than the threshold, which is the given percentile of the
   observed values (the 95th by default); a row whose value equals the
   threshold or is missing is not an event; for the same dataset a higher
   percentile never gives more events, and percentile 100 gives none. *)
C23_ExtremeEvents ==
  Did("extreme_events_analysis") =>
    LET c == TrendVariable
        percent == CASE Last.arg = "50" -> 50 [] Last.arg = "90" -> 90
                     [] Last.arg = "95" -> 95 [] Last.arg = "100" -> 100
    IN /\ Observations(df, c) # {} =>
            /\ diag.threshold = Num(Percentile100(df, c, percent))
            /\ EventLabels(diag) =
                 {df.rows[i].label : i \in {j \in Observations(df, c) :
                                              100 * df.rows[j].cells[c].v > diag.threshold.v}}
       /\ Observations(df, c) = {} => EventLabels(diag) = {}
       /\ diag.num_extreme_events = Cardinality(EventLabels(diag))
       /\ \A i \in 1..NRows(df) :
            (\/ isna(df.rows[i].cells[c])
             \/ Num(100 * df.rows[i].cells[c].v) = diag.threshold)
            => df.rows[i].label \notin EventLabels(diag)
       /\ \A higher \in {"50", "90", "95", "100"} :
            Percent(higher) >= percent
            => EventsAt(df, higher).num_extreme_events <= diag.num_extreme_events
       /\ Last.arg = "100" => diag.num_extreme_events = 0
       /\ DefaultPercentile = "95"

(* 1, 2, 3 and a missing value at the 50th percentile: the threshold is 2, the
   row with 3 is the only event, and there is none at the 100th *)
C23_Witness ==
  /\ DidArg("extreme_events_analysis", "50")
  /\ diag.threshold = Num(100 * Units(2))
  /\ \E i \in 1..NRows(df) : df.rows[i].cells[TrendVariable] = Num(Units(2))
  /\ \E i \in 1..NRows(df) : isna(df.rows[i].cells[TrendVariable])
  /\ diag.num_extreme_events = 1
  /\ EventsAt(df, "100").num_extreme_events = 0

(* ==== requests with a name the operation does not know ==== *)
NextInvalid == HandleMissingValues \/ TrendAnalysis

SpecInvalid == InitTrend /\ [][NextInvalid]_vars

(* ---- C24 ---- *)
RecognizedMethods == {"linear", "polynomial", "mann_kendall"}

RecognizedStrategies == {"interpolate", "forward_fill", "drop"}

(* C24: trend_analysis called with a method name other than the recognized
   ones, and handle_missing_values called with a strategy other than
   interpolate, forward_fill or drop, end in an error and return no result. *)
C24_InvalidRequestFails ==
  (/\ Len(ops) > 0
   /\ \/ (Last.name = "trend_analysis" /\ Last.arg \notin RecognizedMethods)
      \/ (Last.name = "handle_missing_values" /\ Last.arg \notin RecognizedStrategies))
  => ~Last.ok

(* ==== any sequence of Cleaner operations ==== *)
(* rows that repeat a key, a value out of range and missing values *)
PipelineRows ==
  {[date |-> Day(1), embalse_codigo |-> Str(1), embalse_porcentaje |-> Num(500000)],
   [date |-> Day(1), embalse_codigo |-> Str(1), embalse_porcentaje |-> NaN],
   [date |-> Day(1), embalse_codigo |-> Str(2), embalse_porcentaje |-> Num(1200000)],
   [date |-> Day(2), embalse_codigo |-> Str(1), embalse_porcentaje |-> NaN]}

InitPipeline ==
  \E d \in Frames({"range", "time"}, PipelineRows, MaxRows) : Start(d, {FALSE})

NextPipeline ==
  \/ CleanNumericColumns
  \/ ValidateRanges
  \/ HandleMissingValues
  \/ AddDerivedFeatures
  \/ RemoveDuplicates

SpecPipeline == InitPipeline /\ [][NextPipeline]_vars

(* ---- C26 ---- *)
UniqueKeys(d) ==
  \A i, j \in 1..NRows(d) : i # j => ~SameKey(d.rows[i], d.rows[j])

Deduplicated == \E i \in 1..Len(ops) : ops[i].name = "remove_duplicates" /\ ops[i].ok

(* C26: once remove_duplicates has been applied the dataset has at most one
   row per (entity, date), and it stays so under every further Cleaner
   operation: no operation adds a row or changes a row's entity or date (every
   key occurs in the result at most as often as before), and remove_duplicates
   on a dataset whose keys are unique removes nothing. *)
C26_KeyUniquenessPreserved ==
  /\ Deduplicated => UniqueKeys(df)
  /\ Len(ops) > 0 =>
       /\ NRows(df) <= NRows(prev)
       /\ \A i \in 1..NRows(df) :
            /\ \E j \in 1..NRows(prev) : SameKey(prev.rows[j], df.rows[i])
            /\ Occurrences(df.rows, i)
                 <= Cardinality({j \in 1..NRows(prev) : SameKey(prev.rows[j], df.rows[i])})
  /\ (Did("remove_duplicates") /\ UniqueKeys(prev)) =>
       /\ diag = 0
       /\ NRows(df) = NRows(prev)

(* deduplicated, then a forward fill that fills a value: the keys are still
   unique *)
C26_Witness ==
  /\ Len(ops) = 2
  /\ ops[1].name = "remove_duplicates" /\ ops[1].ok
  /\ DidArg("handle_missing_values", "forward_fill")
  /\ df # prev
  /\ NRows(df) >= 2
  /\ UniqueKeys(df)

====
